---------------------------- MODULE Spec2Model ----------------------------
(***************************************************************************)
(* Shared-paper lifecycle of the training service: the relational store   *)
(* (papers, user_answers), the redis cache in front of it, the scoring    *)
(* engine and the service operations of SharedPaperService that compose   *)
(* them.  Text in the source that is not ASCII (the localized labels) is  *)
(* written here as an ASCII stand-in, one stand-in per source literal.    *)
(***************************************************************************)
EXTENDS Integers, Sequences, FiniteSets, TLC

VARIABLES
    dbPapers,    \* table papers: paper_id -> row, or Nil
    dbAnswers,   \* table user_answers: the rows, in insertion (id) order
    cache,       \* redis: key -> [val, ttl], or Nil
    pc,          \* per request thread: where a generate/submit call stands
    loc,         \* per request thread: the call's local variables
    nGenerate,   \* generate_shared_paper calls started
    nSubmit,     \* submit_answers calls started
    nShortTick,  \* short steps of the cache's clock taken
    last,        \* what the call that just returned reported, if one did
    scoreTasks,  \* scoring engine on its own: the analysis tasks handed to it
    scoreOut,    \* scoring engine on its own: what its last call returned
    codeIn,      \* access-code utilities on their own: the random picks or the code
    codeOut      \* access-code utilities on their own: what the last call returned

vars == <<dbPapers, dbAnswers, cache, pc, loc, nGenerate, nSubmit, nShortTick, last,
          scoreTasks, scoreOut, codeIn, codeOut>>

(***************************************************************************)
(* Bounds of the model.                                                    *)
(***************************************************************************)
MaxGenerate == 1
MaxSubmit == 2
MaxGenerateConcurrent == 2
MaxSubmitConcurrent == 3
MaxTasks == 10
MaxStride == 3
MaxCodeLen == 11
TickSeconds == 302400
ShortTickSeconds == 43200
MaxShortTick == 1

Procs == {1, 2}
PaperIds == {"P1"}
\* every paper_id generate_paper_id may return
AllPaperIds == {"P1", "P2"}
Codes == {"K1", "K2"}
Users == {"u1"}
Chats == {"chat1"}

Nil == [nil |-> TRUE]
\* an optional value that is not a record: Nil, or Some(x)
Some(x) == [some |-> x]

(***************************************************************************)
(* Program constants.                                                      *)
(***************************************************************************)
PAPER_CACHE_TTL == 24 * 3600
SHARED_PAPER_TTL == 7 * 24 * 3600
base_score == 10
half_score == 5
max_attempts == 10
access_code_length == 6

PAPER_GENERATE_KEY == "PAPER_GENERATE"
SHARED_PAPER_KEY == "SHARED_PAPER"
ACCESS_CODE_MAP_KEY == "ACCESS_CODE_MAP"
USER_ANSWER_KEY == "USER_ANSWER"

\* ASCII stand-ins of the localized literals of the source.
L_SINGLE == "label_single_choice"
L_MULTI == "label_multiple_choice"
L_TRUE_FALSE == "label_true_false"
L_FILL_BLANK == "label_fill_blank"
E_FORMAT == "answer format error"
E_UNKNOWN_TYPE == "unknown question type"
E_NO_FEEDBACK == "no personalised feedback generated"
F_EXCELLENT == "excellent"
F_SOLID == "solid"
F_ADEQUATE == "adequate"
F_PARTIAL == "partial"
F_REVIEW == "systematic review"

(***************************************************************************)
(* Sequence helpers.                                                       *)
(***************************************************************************)
Range(s) == {s[i] : i \in 1..Len(s)}

RECURSIVE SumSeq(_)
SumSeq(s) == IF s = <<>> THEN 0 ELSE Head(s) + SumSeq(Tail(s))

Min(S) == CHOOSE x \in S : \A y \in S : x <= y

\* a finite set of strings as a sorted sequence (python sorted())
\* the model's ids are single upper-case letters, ordered as listed
IdOrder == <<"", "A", "B", "C", "D">>
IdRank(x) == CHOOSE i \in 1..Len(IdOrder) : IdOrder[i] = x
RECURSIVE SortedIds(_)
SortedIds(S) ==
    IF S = {} THEN <<>>
    ELSE LET m == CHOOSE x \in S : \A y \in S : IdRank(x) <= IdRank(y)
         IN  <<m>> \o SortedIds(S \ {m})

(***************************************************************************)
(* Python strings that the code splits or strips are sequences of          *)
(* one-character strings; a python list of ids is a sequence of ids.       *)
(* A user answer is [t |-> "str", v |-> chars] or [t |-> "list", v |-> ids]*)
(***************************************************************************)
IsSpace(ch) == ch = " "

RECURSIVE LStrip(_)
LStrip(s) == IF s # <<>> /\ IsSpace(Head(s)) THEN LStrip(Tail(s)) ELSE s

RECURSIVE RStrip(_)
RStrip(s) ==
    IF s # <<>> /\ IsSpace(s[Len(s)]) THEN RStrip(SubSeq(s, 1, Len(s) - 1)) ELSE s

\* str.strip()
Strip(s) == RStrip(LStrip(s))

\* str.split(','): the pieces between the commas, at least one piece
RECURSIVE SplitComma(_, _)
SplitComma(s, cur) ==
    IF s = <<>> THEN <<cur>>
    ELSE IF Head(s) = "," THEN <<cur>> \o SplitComma(Tail(s), <<>>)
         ELSE SplitComma(Tail(s), Append(cur, Head(s)))

\* a one-character id as the string it is
IdStr(id) == IF id = "" THEN <<>> ELSE <<id>>

(***************************************************************************)
(* ScoringEngine: analyze_paper_service.calculate_question_score.          *)
(***************************************************************************)
\* type_mapping.get(question_type, question_type)
type_mapping(question_type) ==
    CASE question_type \in {"single_choice", L_SINGLE} -> L_SINGLE
      [] question_type \in {"multiple_choice", L_MULTI} -> L_MULTI
      [] question_type \in {"true_false", L_TRUE_FALSE} -> L_TRUE_FALSE
      [] question_type \in {"fill_blank", L_FILL_BLANK} -> L_FILL_BLANK
      [] OTHER -> question_type

\* paper_utils.convert_question_type_to_chinese: the english names only
convert_question_type_to_chinese(question_type) ==
    CASE question_type = "single_choice" -> L_SINGLE
      [] question_type = "multiple_choice" -> L_MULTI
      [] question_type = "true_false" -> L_TRUE_FALSE
      [] question_type = "fill_blank" -> L_FILL_BLANK
      [] OTHER -> question_type

\* [opt.id for opt in options if opt.is_correct], order kept
RECURSIVE correct_option_list(_)
correct_option_list(options) ==
    IF options = <<>> THEN <<>>
    ELSE (IF Head(options).is_correct THEN <<Head(options).id>> ELSE <<>>)
         \o correct_option_list(Tail(options))

\* ''.join(ids) for one-character ids: the characters in order
JoinIds(ids) == ids

\* the answer compared with the first correct option only
score_single_choice_first_correct_only(user_answer, options, chinese_type) ==
    LET ua == IF user_answer.t = "list"
              THEN (IF user_answer.v # <<>> THEN IdStr(user_answer.v[1]) ELSE <<>>)
              ELSE Strip(user_answer.v)
        correct_options == correct_option_list(options)
        correct_answer == IF correct_options # <<>> THEN correct_options[1] ELSE ""
        hit == correct_options # <<>> /\ ua = IdStr(correct_answer)
    IN  [is_correct |-> hit,
         score |-> IF hit THEN base_score ELSE 0,
         correct_answer |-> correct_answer,
         explanation |-> IF hit THEN "e" ELSE E_FORMAT,
         chinese_type |-> chinese_type]

\* the single-choice branch
score_single_choice(user_answer, options, chinese_type) ==
    LET ua == IF user_answer.t = "list"
              THEN (IF user_answer.v # <<>> THEN IdStr(user_answer.v[1]) ELSE <<>>)
              ELSE Strip(user_answer.v)
        correct_options == correct_option_list(options)
        correct_answer == IF correct_options # <<>> THEN correct_options[1] ELSE ""
        found == {i \in 1..Len(options) : IdStr(options[i].id) = ua}
    IN  IF found # {}
        THEN LET option == options[Min(found)]
             IN  [is_correct |-> option.is_correct,
                  score |-> IF option.is_correct THEN base_score ELSE 0,
                  correct_answer |-> correct_answer,
                  explanation |-> option.explanation,
                  chinese_type |-> chinese_type]
        ELSE [is_correct |-> FALSE,
              score |-> 0,
              correct_answer |-> correct_answer,
              explanation |-> E_FORMAT,
              chinese_type |-> chinese_type]

\* the normalisation of a multiple-choice answer to a set of strings
user_option_set(user_answer) ==
    CASE user_answer.t = "str" -> Range(SplitComma(Strip(user_answer.v), <<>>))
      [] user_answer.t = "list" -> {IdStr(x) : x \in Range(user_answer.v)}
      [] OTHER -> {}

\* a part of the correct options counted as a wrong answer that keeps
\* its half score
score_multiple_choice_partial_incorrect(user_answer, options, chinese_type) ==
    LET user_options == user_option_set(user_answer)
        correct_ids == Range(correct_option_list(options))
        correct_options == {IdStr(x) : x \in correct_ids}
        correct_answer == SortedIds(correct_ids)
        has_wrong_answer == Cardinality(user_options \ correct_options) > 0
        all_correct_answered == Cardinality(correct_options \ user_options) = 0
        correct_answered_count == Cardinality(user_options \cap correct_options)
        verdict ==
            IF has_wrong_answer THEN [is_correct |-> FALSE, score |-> 0]
            ELSE IF all_correct_answered
                    /\ Cardinality(user_options) = Cardinality(correct_options)
                 THEN [is_correct |-> TRUE, score |-> base_score]
            ELSE IF correct_answered_count > 0
                 THEN [is_correct |-> FALSE, score |-> half_score]
            ELSE [is_correct |-> FALSE, score |-> 0]
    IN  [is_correct |-> verdict.is_correct,
         score |-> verdict.score,
         correct_answer |-> correct_answer,
         explanation |-> [text |-> "correct answer contains options", ids |-> correct_answer],
         chinese_type |-> chinese_type]

\* the multiple-choice branch
score_multiple_choice(user_answer, options, chinese_type) ==
    LET user_options == user_option_set(user_answer)
        correct_ids == Range(correct_option_list(options))
        correct_options == {IdStr(x) : x \in correct_ids}
        correct_answer == SortedIds(correct_ids)
        has_wrong_answer == Cardinality(user_options \ correct_options) > 0
        all_correct_answered == Cardinality(correct_options \ user_options) = 0
        correct_answered_count == Cardinality(user_options \cap correct_options)
        verdict ==
            IF has_wrong_answer THEN [is_correct |-> FALSE, score |-> 0]
            ELSE IF all_correct_answered
                    /\ Cardinality(user_options) = Cardinality(correct_options)
                 THEN [is_correct |-> TRUE, score |-> base_score]
            ELSE IF correct_answered_count > 0
                 THEN [is_correct |-> TRUE, score |-> half_score]
            ELSE [is_correct |-> FALSE, score |-> 0]
    IN  [is_correct |-> verdict.is_correct,
         score |-> verdict.score,
         correct_answer |-> correct_answer,
         explanation |-> [text |-> "correct answer contains options", ids |-> correct_answer],
         chinese_type |-> chinese_type]

\* the correct answer taken as in the single-choice branch
score_unknown_type_first_correct(options, chinese_type) ==
    LET correct_options == correct_option_list(options)
    IN  [is_correct |-> FALSE,
         score |-> 0,
         correct_answer |-> IF correct_options # <<>> THEN <<correct_options[1]>>
                            ELSE <<>>,
         explanation |-> E_UNKNOWN_TYPE,
         chinese_type |-> chinese_type]

\* the branch of any other question type
score_unknown_type(options, chinese_type) ==
    LET correct_options == correct_option_list(options)
    IN  [is_correct |-> FALSE,
         score |-> 0,
         correct_answer |-> JoinIds(correct_options),
         explanation |-> E_UNKNOWN_TYPE,
         chinese_type |-> chinese_type]

calculate_question_score(analysis_task) ==
    LET question_type == analysis_task.question_type
        chinese_type == type_mapping(question_type)
    IN  IF question_type \in {"single_choice", L_SINGLE}
        THEN score_single_choice(analysis_task.user_answer, analysis_task.options, chinese_type)
        ELSE IF question_type \in {"multiple_choice", L_MULTI}
        THEN score_multiple_choice(analysis_task.user_answer, analysis_task.options, chinese_type)
        ELSE score_unknown_type(analysis_task.options, chinese_type)

\* the bands with a total that equals a threshold left in the band below
overall_feedback_above_threshold(total_score) ==
    IF total_score > 90 THEN F_EXCELLENT
    ELSE IF total_score > 80 THEN F_SOLID
    ELSE IF total_score > 70 THEN F_ADEQUATE
    ELSE IF total_score > 60 THEN F_PARTIAL
    ELSE F_REVIEW

\* the band of a total score, thresholds tried in descending order
overall_feedback_of(total_score) ==
    IF total_score >= 90 THEN F_EXCELLENT
    ELSE IF total_score >= 80 THEN F_SOLID
    ELSE IF total_score >= 70 THEN F_ADEQUATE
    ELSE IF total_score >= 60 THEN F_PARTIAL
    ELSE F_REVIEW

\* explanation_map.get(question_id, fallback): the last item of that id wins
RECURSIVE explanation_lookup(_, _, _)
explanation_lookup(ai_explanations, question_id, found) ==
    IF ai_explanations = <<>> THEN found
    ELSE explanation_lookup(
             Tail(ai_explanations), question_id,
             IF Head(ai_explanations).question_id = question_id
             THEN Head(ai_explanations).explanation ELSE found)

\* a question the generator did not explain counted as not answered
analysis_result_unexplained_unscored(task, ai_explanations) ==
    LET entry(score_info, explained) ==
            [question_id |-> task.question_id,
             question_type |-> score_info.chinese_type,
             question_text |-> task.question_text,
             user_answer |-> task.user_answer,
             is_correct |-> explained /\ score_info.is_correct,
             score |-> IF explained THEN score_info.score ELSE 0,
             correct_answer |-> score_info.correct_answer,
             explanation |-> explanation_lookup(ai_explanations, task.question_id,
                                                E_NO_FEEDBACK)]
    IN  entry(calculate_question_score(task),
              \E j \in 1..Len(ai_explanations) :
                  ai_explanations[j].question_id = task.question_id)

\* one entry of final_results
analysis_result_of(task, ai_explanations) ==
    LET entry(score_info) ==
            [question_id |-> task.question_id,
             question_type |-> score_info.chinese_type,
             question_text |-> task.question_text,
             user_answer |-> task.user_answer,
             is_correct |-> score_info.is_correct,
             score |-> score_info.score,
             correct_answer |-> score_info.correct_answer,
             explanation |-> explanation_lookup(ai_explanations, task.question_id,
                                                E_NO_FEEDBACK)]
    IN  entry(calculate_question_score(task))

\* correct_count taken as the number of full scores
process_ai_analysis_results_full_marks_only(ai_results, analysis_tasks) ==
    LET summary(final_results, total_score) ==
            [analysis_results |-> final_results,
             total_score |-> total_score,
             correct_count |->
                 Cardinality({i \in 1..Len(final_results) :
                                 final_results[i].score = base_score}),
             total_count |-> Len(analysis_tasks),
             overall_feedback |-> overall_feedback_of(total_score)]
        totalled(final_results) ==
            summary(final_results,
                    SumSeq([i \in 1..Len(final_results) |-> final_results[i].score]))
    IN  totalled([i \in 1..Len(analysis_tasks) |->
                     analysis_result_of(analysis_tasks[i],
                         IF "results" \in DOMAIN ai_results
                         THEN ai_results.results ELSE <<>>)])

process_ai_analysis_results(ai_results, analysis_tasks) ==
    LET summary(final_results, total_score) ==
            [analysis_results |-> final_results,
             total_score |-> total_score,
             correct_count |->
                 Cardinality({i \in 1..Len(final_results) : final_results[i].is_correct}),
             total_count |-> Len(analysis_tasks),
             overall_feedback |-> overall_feedback_of(total_score)]
        totalled(final_results) ==
            summary(final_results,
                    SumSeq([i \in 1..Len(final_results) |-> final_results[i].score]))
    IN  totalled([i \in 1..Len(analysis_tasks) |->
                     analysis_result_of(analysis_tasks[i],
                         IF "results" \in DOMAIN ai_results
                         THEN ai_results.results ELSE <<>>)])

\* analyze_paper_answers: the generator's reply is "fail" (call, timeout or
\* parse error: the except branch ends without a return, the value is None)
\* or the parsed reply
analyze_paper_answers(analysis_tasks, ai_reply) ==
    IF ai_reply = Nil THEN Nil
    ELSE process_ai_analysis_results(ai_reply, analysis_tasks)

(***************************************************************************)
(* paper_utils.                                                            *)
(***************************************************************************)
\* the option handed on as it is stored
hide_option_leak(option) == option

\* QuestionOptionForFrontend(id, text)
hide_option(option) == [id |-> option.id, text |-> option.text]

hide_correct_answers(questions) ==
    [i \in 1..Len(questions) |->
        [question_id |-> questions[i].question_id,
         question_type |-> questions[i].question_type,
         question_text |-> questions[i].question_text,
         options |-> [j \in 1..Len(questions[i].options) |->
                         hide_option(questions[i].options[j])]]]

\* question_map: the last question of an id wins
question_of(cached_questions, question_id) ==
    LET idx == {i \in 1..Len(cached_questions) :
                   cached_questions[i].question_id = question_id}
    IN  IF idx = {} THEN Nil
        ELSE cached_questions[CHOOSE i \in idx : \A j \in idx : j <= i]

\* an answer to a question the paper does not have taken as a task of an
\* empty question
build_analysis_tasks_lenient(cached_questions, user_answers) ==
    Some([i \in 1..Len(user_answers) |->
        LET cached_question ==
                question_of(cached_questions, user_answers[i].question_id)
        IN  [question_id |-> user_answers[i].question_id,
             question_type |-> IF cached_question = Nil THEN ""
                               ELSE cached_question.question_type,
             question_text |-> IF cached_question = Nil THEN ""
                               ELSE cached_question.question_text,
             user_answer |-> user_answers[i].user_answer,
             options |-> IF cached_question = Nil THEN <<>>
                         ELSE cached_question.options]])

\* build_analysis_tasks_from_cache: Some(tasks), or Nil for the ValueError
build_analysis_tasks_from_cache(cached_questions, user_answers) ==
    IF \E i \in 1..Len(user_answers) :
           question_of(cached_questions, user_answers[i].question_id) = Nil
    THEN Nil
    ELSE Some([i \in 1..Len(user_answers) |->
             LET cached_question ==
                     question_of(cached_questions, user_answers[i].question_id)
             IN  [question_id |-> user_answers[i].question_id,
                  question_type |-> cached_question.question_type,
                  question_text |-> cached_question.question_text,
                  user_answer |-> user_answers[i].user_answer,
                  options |-> cached_question.options]])

(***************************************************************************)
(* redis_util.PaperTestStateProcessor over the redis client.               *)
(***************************************************************************)
PaperKey(paper_id) == <<SHARED_PAPER_KEY, paper_id>>
MapKey(access_code) == <<ACCESS_CODE_MAP_KEY, access_code>>
AnswerKey(paper_id, user_id) == <<USER_ANSWER_KEY, paper_id, user_id>>
GenerateKey(user_id, chat_id) == <<PAPER_GENERATE_KEY, user_id, chat_id>>

Keys ==
    {PaperKey(p) : p \in AllPaperIds} \cup {MapKey(k) : k \in Codes}
    \cup {AnswerKey(p, u) : p \in AllPaperIds, u \in Users}
    \cup {GenerateKey(u, c) : u \in Users, c \in Chats}

\* the TTL the processor gives the entries of a key's family
FamilyTTL(key) == IF key[1] = PAPER_GENERATE_KEY THEN PAPER_CACHE_TTL ELSE SHARED_PAPER_TTL

\* redis_client.set(key, value, ex=ttl)
RedisSet(c, key, value, ttl) == [c EXCEPT ![key] = [val |-> value, ttl |-> ttl]]

\* the expire call of the getters left out
RedisExpire_skipped(c, key, ttl) == c

\* redis_client.expire(key, ttl)
RedisExpire(c, key, ttl) ==
    IF c[key] = Nil THEN c ELSE [c EXCEPT ![key] = [val |-> c[key].val, ttl |-> ttl]]

\* redis_client.delete(key)
RedisDelete(c, key) == [c EXCEPT ![key] = Nil]

\* the getters: get, and on a hit expire with the family's TTL.
\* [found, val: the value, c: the cache afterwards, hits: the keys hit]
CachedRead(c, key, ttl) ==
    IF c[key] # Nil
    THEN [found |-> TRUE, val |-> c[key].val, c |-> RedisExpire(c, key, ttl), hits |-> {key}]
    ELSE [found |-> FALSE, val |-> Nil, c |-> c, hits |-> {}]

get_generated_paper(c, user_id, chat_id) ==
    CachedRead(c, GenerateKey(user_id, chat_id), PAPER_CACHE_TTL)

get_shared_paper(c, paper_id) == CachedRead(c, PaperKey(paper_id), SHARED_PAPER_TTL)

get_paper_id_by_access_code(c, access_code) ==
    CachedRead(c, MapKey(access_code), SHARED_PAPER_TTL)

get_user_answer_cached(c, paper_id, user_id) ==
    CachedRead(c, AnswerKey(paper_id, user_id), SHARED_PAPER_TTL)

save_generated_paper(c, user_id, chat_id, paper_data) ==
    RedisSet(c, GenerateKey(user_id, chat_id), paper_data, PAPER_CACHE_TTL)

save_shared_paper(c, paper_id, paper_data) ==
    RedisSet(c, PaperKey(paper_id), paper_data, SHARED_PAPER_TTL)

save_access_code_mapping(c, access_code, paper_id) ==
    RedisSet(c, MapKey(access_code), paper_id, SHARED_PAPER_TTL)

save_user_answer(c, paper_id, user_id, answer_data) ==
    RedisSet(c, AnswerKey(paper_id, user_id), answer_data, SHARED_PAPER_TTL)

(***************************************************************************)
(* paper_dao: PaperDao and UserAnswerDao over the session.                 *)
(* `ok` is whether the store accepts the commit; a refused commit is      *)
(* rolled back.  A TEXT column holding JSON is [json |-> value], NULL is   *)
(* Nil.  A timestamp is [clock, call]: the clock that set it (the store's *)
(* now() or the application's datetime.now()) and the call it was set in. *)
(***************************************************************************)
dao_get_paper_by_id(papers, paper_id) == papers[paper_id]

dao_get_paper_by_access_code(papers, access_code) ==
    LET found == {p \in DOMAIN papers : papers[p] # Nil /\ papers[p].access_code = access_code}
    IN  IF found = {} THEN Nil ELSE papers[CHOOSE p \in found : TRUE]

\* Some(the list), or Nil for None
get_paper_questions(papers, paper_id) ==
    LET paper == dao_get_paper_by_id(papers, paper_id)
    IN  IF paper # Nil THEN Some(paper.questions.json) ELSE Nil

\* the table without the unique constraint on access_code
create_paper_code_not_unique(papers, paper_data, ok, call) ==
    IF ok /\ papers[paper_data.paper_id] = Nil
    THEN [ok |-> TRUE,
          papers |-> [papers EXCEPT ![paper_data.paper_id] =
              [paper_id |-> paper_data.paper_id,
               questions |-> [json |-> paper_data.questions],
               total_count |-> paper_data.total_count,
               access_code |-> paper_data.access_code,
               user_id |-> paper_data.user_id,
               status |-> paper_data.status,
               created_at |-> [clock |-> "db", call |-> call]]]]
    ELSE [ok |-> FALSE, papers |-> papers]

\* the primary key and the unique access_code are enforced by the table
create_paper(papers, paper_data, ok, call) ==
    IF ok /\ papers[paper_data.paper_id] = Nil
          /\ dao_get_paper_by_access_code(papers, paper_data.access_code) = Nil
    THEN [ok |-> TRUE,
          papers |-> [papers EXCEPT ![paper_data.paper_id] =
              [paper_id |-> paper_data.paper_id,
               questions |-> [json |-> paper_data.questions],
               total_count |-> paper_data.total_count,
               access_code |-> paper_data.access_code,
               user_id |-> paper_data.user_id,
               status |-> paper_data.status,
               created_at |-> [clock |-> "db", call |-> call]]]]
    ELSE [ok |-> FALSE, papers |-> papers]

\* the row written back with the time of the update
update_paper_status_touching_created_at(papers, paper_id, status, ok) ==
    IF papers[paper_id] # Nil /\ ok
    THEN [ok |-> TRUE,
          papers |-> [papers EXCEPT ![paper_id].status = status,
                                    ![paper_id].created_at =
                                        [clock |-> "db", call |-> "update"]]]
    ELSE [ok |-> FALSE, papers |-> papers]

update_paper_status(papers, paper_id, status, ok) ==
    IF papers[paper_id] # Nil /\ ok
    THEN [ok |-> TRUE, papers |-> [papers EXCEPT ![paper_id].status = status]]
    ELSE [ok |-> FALSE, papers |-> papers]

RECURSIVE rows_not_of_paper(_, _)
rows_not_of_paper(rows, paper_id) ==
    IF rows = <<>> THEN <<>>
    ELSE (IF Head(rows).paper_id = paper_id THEN <<>> ELSE <<Head(rows)>>)
         \o rows_not_of_paper(Tail(rows), paper_id)

\* the paper deleted without its answer rows
delete_paper_keeping_answers(papers, rows, paper_id, ok) ==
    IF papers[paper_id] # Nil /\ ok
    THEN [ok |-> TRUE, papers |-> [papers EXCEPT ![paper_id] = Nil], rows |-> rows]
    ELSE [ok |-> FALSE, papers |-> papers, rows |-> rows]

\* the answers' deletion is committed only together with the paper's
delete_paper(papers, rows, paper_id, ok) ==
    IF papers[paper_id] # Nil /\ ok
    THEN [ok |-> TRUE,
          papers |-> [papers EXCEPT ![paper_id] = Nil],
          rows |-> rows_not_of_paper(rows, paper_id)]
    ELSE [ok |-> FALSE, papers |-> papers, rows |-> rows]

answer_rows(rows, paper_id, user_id) ==
    {i \in 1..Len(rows) : rows[i].paper_id = paper_id /\ rows[i].user_id = user_id}

\* query(...).first(): the row of the lowest id, or Nil
dao_get_user_answer(rows, paper_id, user_id) ==
    LET found == answer_rows(rows, paper_id, user_id)
    IN  IF found = {} THEN Nil ELSE rows[Min(found)]

\* json.dumps(x) if x else None
json_or_null(x) == IF x = <<>> THEN Nil ELSE [json |-> x]

\* no constraint of the table involves (paper_id, user_id): the key is id
create_user_answer(rows, answer_data, ok, call) ==
    IF ok
    THEN [ok |-> TRUE,
          rows |-> Append(rows,
              [paper_id |-> answer_data.paper_id,
               user_id |-> answer_data.user_id,
               answers |-> json_or_null(answer_data.answers),
               score |-> answer_data.score,
               correct_count |-> answer_data.correct_count,
               total_count |-> answer_data.total_count,
               analysis_results |-> json_or_null(answer_data.analysis_results),
               overall_feedback |-> answer_data.overall_feedback,
               submitted_at |-> [clock |-> "db", call |-> call]])]
    ELSE [ok |-> FALSE, rows |-> rows]

\* returns False, never raises
update_user_answer(rows, paper_id, user_id, answer_data, ok) ==
    LET found == answer_rows(rows, paper_id, user_id)
    IN  IF found # {} /\ ok
        THEN [ok |-> TRUE,
              rows |-> [rows EXCEPT ![Min(found)] =
                  [paper_id |-> @.paper_id,
                   user_id |-> @.user_id,
                   answers |-> [json |-> answer_data.answers],
                   score |-> answer_data.score,
                   correct_count |-> answer_data.correct_count,
                   total_count |-> answer_data.total_count,
                   analysis_results |-> [json |-> answer_data.analysis_results],
                   overall_feedback |-> answer_data.overall_feedback,
                   submitted_at |-> @.submitted_at]]]
        ELSE [ok |-> FALSE, rows |-> rows]

(***************************************************************************)
(* access_code_util.                                                       *)
(***************************************************************************)
\* generate_unique_access_code: draws[i] is the i-th random code; the
\* result is the code and the number of checks made; ok FALSE is ValueError
RECURSIVE unique_access_code_from(_, _, _)
unique_access_code_from(draws, papers, attempt) ==
    IF attempt > max_attempts
    THEN [ok |-> FALSE, code |-> "", checks |-> max_attempts]
    ELSE IF dao_get_paper_by_access_code(papers, draws[attempt]) = Nil
         THEN [ok |-> TRUE, code |-> draws[attempt], checks |-> attempt]
         ELSE unique_access_code_from(draws, papers, attempt + 1)

\* the first draw returned without a check
generate_unique_access_code_unchecked(draws, papers) ==
    [ok |-> TRUE, code |-> draws[1], checks |-> 0]

generate_unique_access_code(draws, papers) == unique_access_code_from(draws, papers, 1)

\* the alphabet of generate_access_code, a string as its characters
chars ==
    <<"A", "B", "C", "D", "E", "F", "G", "H", "J", "K", "L", "M", "N", "P", "Q", "R",
      "S", "T", "U", "V", "W", "X", "Y", "Z", "2", "3", "4", "5", "6", "7", "8", "9">>

\* string.ascii_uppercase and string.digits
ascii_uppercase ==
    <<"A", "B", "C", "D", "E", "F", "G", "H", "I", "J", "K", "L", "M", "N", "O", "P",
      "Q", "R", "S", "T", "U", "V", "W", "X", "Y", "Z">>
digits == <<"0", "1", "2", "3", "4", "5", "6", "7", "8", "9">>

\* the characters drawn from every upper-case letter and digit
generate_access_code_any_alnum(length, picks) ==
    [i \in 1..length |-> (ascii_uppercase \o digits)[picks[i]]]

\* generate_access_code(length): picks[i] is where the i-th random.choice
\* lands in chars
generate_access_code(length, picks) == [i \in 1..length |-> chars[picks[i]]]

\* validate_access_code
validate_access_code(access_code) ==
    IF access_code = <<>> THEN FALSE
    ELSE IF Len(access_code) < 4 \/ Len(access_code) > 10 THEN FALSE
    ELSE \A i \in 1..Len(access_code) :
             access_code[i] \in Range(ascii_uppercase) \cup Range(digits)

(***************************************************************************)
(* generate_paper_service.generate_training_questions: the generator is   *)
(* called once, and once more when the first reply failed.  A reply is    *)
(* Nil (the call or the parse failed) or the questions parsed from it.     *)
(***************************************************************************)
convert_types(questions) ==
    [i \in 1..Len(questions) |->
        [questions[i] EXCEPT !.question_type = convert_question_type_to_chinese(@)]]

\* the part after the calls: json_res.get('questions', []) and the
\* conversion; a reply that is not a JSON object has no get
questions_of_reply(json_res, calls) ==
    IF "questions" \in DOMAIN json_res
    THEN [ok |-> TRUE, questions |-> convert_types(json_res.questions), calls |-> calls]
    ELSE [ok |-> FALSE, questions |-> <<>>, calls |-> calls]

\* a reply without questions taken for a failed call and retried
generate_training_questions_retry_on_empty(reply1, reply2) ==
    IF reply1 # Nil /\ reply1 # [questions |-> <<>>]
    THEN questions_of_reply(reply1, 1)
    ELSE IF reply2 # Nil
    THEN questions_of_reply(reply2, 2)
    ELSE [ok |-> FALSE, questions |-> <<>>, calls |-> 2]

generate_training_questions(reply1, reply2) ==
    IF reply1 # Nil
    THEN questions_of_reply(reply1, 1)
    ELSE IF reply2 # Nil
    THEN questions_of_reply(reply2, 2)
    ELSE [ok |-> FALSE, questions |-> <<>>, calls |-> 2]

(***************************************************************************)
(* Inputs of the requests.                                                 *)
(***************************************************************************)
Q1 == [question_id |-> "1", question_type |-> "single_choice", question_text |-> "q1",
       options |-> <<[id |-> "A", text |-> "a", is_correct |-> FALSE, explanation |-> "ea"],
                     [id |-> "B", text |-> "b", is_correct |-> TRUE, explanation |-> "eb"]>>]
Q2 == [question_id |-> "2", question_type |-> "multiple_choice", question_text |-> "q2",
       options |-> <<[id |-> "A", text |-> "a", is_correct |-> TRUE, explanation |-> "ea"],
                     [id |-> "B", text |-> "b", is_correct |-> FALSE, explanation |-> "eb"],
                     [id |-> "C", text |-> "c", is_correct |-> TRUE, explanation |-> "ec"]>>]

\* what the question generator may reply: a failure (the call or the parse
\* raised), no question, a paper, or JSON that is not an object
GeneratorReplies ==
    {Nil, [questions |-> <<>>], [questions |-> <<Q1, Q2>>], [not_an_object |-> TRUE]}
\* the replies to the first call and to the retry
GeneratorRuns ==
    {<<r1, r2>> \in GeneratorReplies \X GeneratorReplies :
        (r1 # Nil => r2 = Nil) /\ (r1 = Nil => r2 # [questions |-> <<>>])}

StrAnswer(str) == [t |-> "str", v |-> str]
ListAnswer(ids) == [t |-> "list", v |-> ids]

AnswerLists ==
    { <<[question_id |-> "1", user_answer |-> StrAnswer(<<"B">>)],
        [question_id |-> "2", user_answer |-> ListAnswer(<<"A">>)]>>,
      <<[question_id |-> "1", user_answer |-> StrAnswer(<<"A">>)],
        [question_id |-> "2", user_answer |-> ListAnswer(<<"A", "C">>)]>>,
      <<[question_id |-> "9", user_answer |-> StrAnswer(<<"A">>)]>> }

\* answer lists that repeat a question_id or leave questions out
PartialAnswerLists ==
    { <<[question_id |-> "1", user_answer |-> StrAnswer(<<"B">>)],
        [question_id |-> "1", user_answer |-> StrAnswer(<<"B">>)],
        [question_id |-> "2", user_answer |-> ListAnswer(<<"A", "C">>)]>>,
      <<[question_id |-> "2", user_answer |-> ListAnswer(<<"A", "C">>)],
        [question_id |-> "2", user_answer |-> ListAnswer(<<"A">>)]>>,
      <<[question_id |-> "1", user_answer |-> StrAnswer(<<"B">>)]>>,
      <<[question_id |-> "2", user_answer |-> ListAnswer(<<"B">>)]>> }

\* what the explanation generator may reply to a batch of tasks: a failure
\* (Nil) or an explanation of every task
AiKinds == {"fail", "full"}
AiReply(kind, tasks) ==
    CASE kind = "fail" -> Nil
      [] OTHER -> [results |-> [i \in 1..Len(tasks) |->
                      [question_id |-> tasks[i].question_id,
                       explanation |-> "ai feedback"]]]

FileLists == {<<"doc1">>}
Owners == {"owner1"}
Statuses == {"active", "inactive"}
\* how the cache writes of one step end: all done, or the n-th one raising
CacheFates == {"ok", "fail_1", "fail_2"}

(***************************************************************************)
(* SharedPaperService: the reads.  Each returns the result (Nil for None), *)
(* the cache afterwards and what the call touched: the keys hit, missed    *)
(* and written, and whether the relational store was queried.              *)
(***************************************************************************)
get_paper_by_id(c, papers, paper_id, fate) ==
    LET rd == get_shared_paper(c, paper_id)
    IN  IF rd.found
        THEN LET frontend_questions == hide_correct_answers(rd.val.questions)
             IN  [result |-> [paper_id |-> rd.val.paper_id,
                              access_code |-> rd.val.access_code,
                              questions |-> frontend_questions,
                              total_count |-> Len(frontend_questions),
                              created_at |-> rd.val.created_at,
                              documents |-> rd.val.documents,
                              document_count |-> rd.val.document_count],
                  c |-> rd.c, via |-> "cache", hits |-> rd.hits, missed |-> {},
                  wrote |-> {}, dbQueried |-> FALSE, dbFound |-> FALSE]
        ELSE LET paper == dao_get_paper_by_id(papers, paper_id)
                 none == [result |-> Nil, c |-> c, via |-> "db", hits |-> {},
                          missed |-> {PaperKey(paper_id)}, wrote |-> {},
                          dbQueried |-> TRUE, dbFound |-> FALSE]
             IN  IF paper = Nil THEN none
                 ELSE IF paper.status # "active" THEN none
                 ELSE LET questions == get_paper_questions(papers, paper_id).some
                          frontend_questions == hide_correct_answers(questions)
                          cache_data == [paper_id |-> paper.paper_id,
                                         questions |-> questions,
                                         total_count |-> paper.total_count,
                                         access_code |-> paper.access_code,
                                         user_id |-> paper.user_id,
                                         created_at |-> paper.created_at,
                                         documents |-> <<>>,
                                         document_count |-> 0]
                          c1 == save_shared_paper(c, paper_id, cache_data)
                          c2 == save_access_code_mapping(c1, paper.access_code, paper_id)
                      IN  IF questions = <<>> THEN none
                          ELSE IF fate = "fail_1"
                          THEN [none EXCEPT !.dbFound = TRUE]
                          ELSE IF fate = "fail_2"
                          THEN [none EXCEPT !.dbFound = TRUE, !.c = c1,
                                            !.wrote = {PaperKey(paper_id)}]
                          ELSE [result |-> [paper_id |-> paper.paper_id,
                                            access_code |-> paper.access_code,
                                            questions |-> frontend_questions,
                                            total_count |-> Len(frontend_questions),
                                            created_at |-> cache_data.created_at,
                                            documents |-> cache_data.documents,
                                            document_count |-> cache_data.document_count],
                                c |-> c2, via |-> "db", hits |-> {},
                                missed |-> {PaperKey(paper_id)},
                                wrote |-> {PaperKey(paper_id), MapKey(paper.access_code)},
                                dbQueried |-> TRUE, dbFound |-> TRUE]

get_paper_by_access_code(c, papers, access_code, fate) ==
    LET rd == get_paper_id_by_access_code(c, access_code)
        paper == dao_get_paper_by_access_code(papers, access_code)
        \* what the call touched, on top of what get_paper_by_id touched
        touched(r) ==
            IF rd.found
            THEN [r EXCEPT !.hits = @ \cup rd.hits]
            ELSE [r EXCEPT !.missed = @ \cup {MapKey(access_code)},
                           !.dbQueried = TRUE,
                           !.dbFound = (r.result # Nil \/ r.dbFound)]
    IN  IF ~rd.found /\ (paper = Nil \/ (paper # Nil /\ paper.status # "active"))
        THEN [result |-> Nil, c |-> c, via |-> "db", hits |-> {},
              missed |-> {MapKey(access_code)}, wrote |-> {},
              dbQueried |-> TRUE, dbFound |-> FALSE]
        ELSE touched(get_paper_by_id(IF rd.found THEN rd.c ELSE c, papers,
                                     IF rd.found THEN rd.val ELSE paper.paper_id,
                                     fate))

get_user_result(c, rows, paper_id, user_id, fate) ==
    LET rd == get_user_answer_cached(c, paper_id, user_id)
    IN  IF rd.found
        THEN LET pd == get_shared_paper(rd.c, paper_id)
             IN  [result |-> IF pd.found
                             THEN [k \in DOMAIN rd.val \cup {"documents", "document_count"} |->
                                      CASE k = "documents" -> pd.val.documents
                                        [] k = "document_count" -> pd.val.document_count
                                        [] OTHER -> rd.val[k]]
                             ELSE rd.val,
                  c |-> pd.c, via |-> "cache", hits |-> rd.hits \cup pd.hits,
                  missed |-> {}, wrote |-> {}, dbQueried |-> FALSE, dbFound |-> FALSE]
        ELSE LET user_answer == dao_get_user_answer(rows, paper_id, user_id)
                 pd == get_shared_paper(c, paper_id)
             IN  IF user_answer = Nil
                 THEN [result |-> Nil, c |-> c, via |-> "db", hits |-> {},
                       missed |-> {AnswerKey(paper_id, user_id)}, wrote |-> {},
                       dbQueried |-> TRUE, dbFound |-> FALSE]
                 ELSE LET result_data ==
                              [paper_id |-> user_answer.paper_id,
                               user_id |-> user_answer.user_id,
                               analysis_results |->
                                   IF user_answer.analysis_results # Nil
                                   THEN user_answer.analysis_results.json ELSE <<>>,
                               total_score |-> user_answer.score,
                               correct_count |-> user_answer.correct_count,
                               total_count |-> user_answer.total_count,
                               overall_feedback |-> user_answer.overall_feedback,
                               submitted_at |-> user_answer.submitted_at,
                               documents |-> IF pd.found THEN pd.val.documents ELSE <<>>,
                               document_count |->
                                   IF pd.found THEN pd.val.document_count ELSE 0]
                      IN  IF fate = "ok"
                          THEN [result |-> result_data,
                                c |-> save_user_answer(pd.c, paper_id, user_id, result_data),
                                via |-> "db", hits |-> pd.hits,
                                missed |-> {AnswerKey(paper_id, user_id)},
                                wrote |-> {AnswerKey(paper_id, user_id)},
                                dbQueried |-> TRUE, dbFound |-> TRUE]
                          ELSE [result |-> Nil, c |-> pd.c, via |-> "db", hits |-> pd.hits,
                                missed |-> {AnswerKey(paper_id, user_id)}, wrote |-> {},
                                dbQueried |-> TRUE, dbFound |-> TRUE]

(***************************************************************************)
(* The state machine.  `last` is what the generate or submit call that    *)
(* returned in the step just taken reported to its caller, NoOutcome       *)
(* after any other step.                                                   *)
(***************************************************************************)
NoOutcome == [op |-> "none"]

Init ==
    /\ dbPapers = [p \in AllPaperIds |-> Nil]
    /\ dbAnswers = <<>>
    /\ cache = [k \in Keys |-> Nil]
    /\ pc = [t \in Procs |-> "idle"]
    /\ loc = [t \in Procs |-> Nil]
    /\ nGenerate = 0
    /\ nSubmit = 0
    /\ nShortTick = 0
    /\ scoreTasks = <<>>
    /\ scoreOut = [op |-> "none"]
    /\ codeIn = [kind |-> "none"]
    /\ codeOut = [op |-> "none"]
    /\ last = NoOutcome

AllIdle == \A t \in Procs : pc[t] = "idle"

\* what a finished generate_shared_paper call reports
GenerateOutcome(l, status, reason, wrote) ==
    [op |-> "generate", status |-> status, reason |-> reason,
     paper_id |-> l.paper_id, access_code |-> l.access_code,
     total_count |-> l.total_count, checks |-> l.checks,
     generator_calls |-> l.generator_calls,
     first_call_failed |-> l.first_call_failed,
     dbCommitted |-> l.dbCommitted, wrote |-> wrote]

\* the empty-paper check left out
generate_rejection_no_empty_check(code, gen) ==
    IF ~code.ok THEN "exhausted attempts"
    ELSE IF ~gen.ok THEN "generator failed"
    ELSE "none"

\* why generate_shared_paper raises before it persists anything, or "none":
\* the access code, then the generator, then `if not questions`
generate_rejection(code, gen) ==
    IF ~code.ok THEN "exhausted attempts"
    ELSE IF ~gen.ok THEN "generator failed"
    ELSE IF gen.questions = <<>> THEN "empty paper"
    ELSE "none"

\* generate_shared_paper up to the paper_data it is about to persist, the
\* paper_id drawn from ids, while fewer than cap calls have started
GenerateBeginOn(t, ids, cap) ==
    /\ pc[t] = "idle"
    /\ nGenerate < cap
    /\ \E paper_id \in ids, d1 \in Codes, d2 \in Codes, file_list \in FileLists,
          user_id \in Owners, run \in GeneratorRuns :
        LET reply1 == run[1]
            reply2 == run[2]
            draws == [i \in 1..max_attempts |-> IF i = 1 THEN d1 ELSE d2]
            code == generate_unique_access_code(draws, dbPapers)
            gen == generate_training_questions(reply1, reply2)
            l == [op |-> "generate",
                  paper_id |-> paper_id,
                  access_code |-> code.code,
                  checks |-> code.checks,
                  generator_calls |-> IF code.ok THEN gen.calls ELSE 0,
                  first_call_failed |-> code.ok /\ reply1 = Nil,
                  questions |-> gen.questions,
                  total_count |-> Len(gen.questions),
                  user_id |-> user_id,
                  documents |-> file_list,
                  call |-> "generate",
                  dbCommitted |-> FALSE]
            reason == generate_rejection(code, gen)
        IN  /\ nGenerate' = nGenerate + 1
            /\ IF reason = "none"
               THEN /\ pc' = [pc EXCEPT ![t] = "generate_db"]
                    /\ loc' = [loc EXCEPT ![t] = l]
                    /\ last' = NoOutcome
               ELSE /\ UNCHANGED <<pc, loc>>
                    /\ last' = GenerateOutcome(l, "error", reason, {})
    /\ UNCHANGED <<dbPapers, dbAnswers, cache, nSubmit, nShortTick, scoreTasks, scoreOut, codeIn, codeOut>>

GenerateBegin(t) == GenerateBeginOn(t, PaperIds, MaxGenerate)

\* paper_dao.create_paper(paper_data)
GenerateDurable(t) ==
    /\ pc[t] = "generate_db"
    /\ \E ok \in BOOLEAN :
        LET l == loc[t]
            paper_data == [paper_id |-> l.paper_id, questions |-> l.questions,
                           total_count |-> l.total_count, access_code |-> l.access_code,
                           user_id |-> l.user_id, status |-> "active"]
            r == create_paper(dbPapers, paper_data, ok, l.call)
        IN  /\ dbPapers' = r.papers
            /\ IF r.ok
               THEN /\ pc' = [pc EXCEPT ![t] = "generate_cache"]
                    /\ loc' = [loc EXCEPT ![t] = [l EXCEPT !.dbCommitted = TRUE]]
                    /\ last' = NoOutcome
               ELSE /\ pc' = [pc EXCEPT ![t] = "idle"]
                    /\ loc' = [loc EXCEPT ![t] = Nil]
                    /\ last' = GenerateOutcome(l, "error", "durable store", {})
    /\ UNCHANGED <<dbAnswers, cache, nGenerate, nSubmit, nShortTick, scoreTasks, scoreOut, codeIn, codeOut>>

\* save_shared_paper, save_access_code_mapping, and the summary returned
GenerateCache(t) ==
    /\ pc[t] = "generate_cache"
    /\ \E fate \in CacheFates :
        LET l == loc[t]
            cache_data == [paper_id |-> l.paper_id,
                           questions |-> l.questions,
                           total_count |-> Len(l.questions),
                           access_code |-> l.access_code,
                           user_id |-> l.user_id,
                           created_at |-> [clock |-> "app", call |-> l.call],
                           documents |-> l.documents,
                           document_count |-> Len(l.documents)]
            c1 == save_shared_paper(cache, l.paper_id, cache_data)
            c2 == save_access_code_mapping(c1, l.access_code, l.paper_id)
        IN  CASE fate = "ok" ->
                    /\ cache' = c2
                    /\ last' = GenerateOutcome(l, "ok", "none",
                                   {PaperKey(l.paper_id), MapKey(l.access_code)})
              [] fate = "fail_1" ->
                    /\ cache' = cache
                    /\ last' = GenerateOutcome(l, "error", "cache", {})
              [] fate = "fail_2" ->
                    /\ cache' = c1
                    /\ last' = GenerateOutcome(l, "error", "cache", {PaperKey(l.paper_id)})
    /\ pc' = [pc EXCEPT ![t] = "idle"]
    /\ loc' = [loc EXCEPT ![t] = Nil]
    /\ UNCHANGED <<dbPapers, dbAnswers, nGenerate, nSubmit, nShortTick, scoreTasks, scoreOut, codeIn, codeOut>>

\* what a finished submit_answers call reports
SubmitOutcome(l, status, reason, wrote) ==
    [op |-> "submit", status |-> status, reason |-> reason,
     paper_id |-> l.paper_id, user_id |-> l.user_id,
     answer_data |-> l.answer_data, existing |-> l.existing,
     aiFailed |-> l.aiFailed,
     dbCommitted |-> l.dbCommitted, wrote |-> wrote]

\* the answer record submit_answers builds from the analysis result
answer_data_of(paper_id, user_id, answers, result) ==
    [paper_id |-> paper_id,
     user_id |-> user_id,
     answers |-> answers,
     score |-> result.total_score,
     correct_count |-> result.correct_count,
     total_count |-> result.total_count,
     analysis_results |-> result.analysis_results,
     overall_feedback |-> result.overall_feedback]

\* submit_answers up to the look-up of the existing record
SubmitBeginWith(t, ids, cap, lists) ==
    /\ pc[t] = "idle"
    /\ nSubmit < cap
    /\ \E paper_id \in ids, user_id \in Users, answers \in lists,
          ai \in AiKinds :
        LET rd == get_shared_paper(cache, paper_id)
            fromDb == get_paper_questions(dbPapers, paper_id)
            analysed(questions, built, result) ==
                LET reason == IF questions = <<>> THEN "paper not found"
                              ELSE IF built = Nil THEN "unknown question"
                              ELSE IF result = Nil THEN "analysis returned None"
                              ELSE "none"
                    l == [op |-> "submit",
                          paper_id |-> paper_id,
                          user_id |-> user_id,
                          answer_data |->
                              IF reason # "none" THEN Nil
                              ELSE answer_data_of(paper_id, user_id, answers, result),
                          existing |->
                              dao_get_user_answer(dbAnswers, paper_id, user_id) # Nil,
                          aiFailed |-> (questions # <<>> /\ built # Nil /\ ai = "fail"),
                          call |-> answers,
                          dbCommitted |-> FALSE]
                IN  IF reason = "none"
                    THEN /\ pc' = [pc EXCEPT ![t] = "submit_db"]
                         /\ loc' = [loc EXCEPT ![t] = l]
                         /\ last' = NoOutcome
                    ELSE /\ UNCHANGED <<pc, loc>>
                         /\ last' = SubmitOutcome(l, "error", reason, {})
            built_from(questions, built) ==
                analysed(questions, built,
                         IF built = Nil THEN Nil
                         ELSE analyze_paper_answers(built.some, AiReply(ai, built.some)))
            questions_from(questions) ==
                built_from(questions,
                           IF questions # <<>>
                           THEN build_analysis_tasks_from_cache(questions, answers)
                           ELSE Nil)
        IN  /\ nSubmit' = nSubmit + 1
            /\ cache' = rd.c
            /\ questions_from(IF rd.found THEN rd.val.questions
                              ELSE IF fromDb # Nil THEN fromDb.some ELSE <<>>)
    /\ UNCHANGED <<dbPapers, dbAnswers, nGenerate, nShortTick, scoreTasks, scoreOut, codeIn, codeOut>>

\* the answer lists that name every question once, or an unknown one
SubmitBeginOn(t, ids, cap) == SubmitBeginWith(t, ids, cap, AnswerLists)

SubmitBegin(t) == SubmitBeginOn(t, PaperIds, MaxSubmit)

\* update_user_answer (its result is not looked at) or create_user_answer
SubmitDurable(t) ==
    /\ pc[t] = "submit_db"
    /\ \E ok \in BOOLEAN :
        LET l == loc[t]
            r == IF l.existing
                 THEN update_user_answer(dbAnswers, l.paper_id, l.user_id, l.answer_data, ok)
                 ELSE create_user_answer(dbAnswers, l.answer_data, ok, l.call)
        IN  /\ dbAnswers' = r.rows
            /\ IF l.existing \/ r.ok
               THEN /\ pc' = [pc EXCEPT ![t] = "submit_cache"]
                    /\ loc' = [loc EXCEPT ![t] = [l EXCEPT !.dbCommitted = r.ok]]
                    /\ last' = NoOutcome
               ELSE /\ pc' = [pc EXCEPT ![t] = "idle"]
                    /\ loc' = [loc EXCEPT ![t] = Nil]
                    /\ last' = SubmitOutcome(l, "error", "durable store", {})
    /\ UNCHANGED <<dbPapers, cache, nGenerate, nSubmit, nShortTick, scoreTasks, scoreOut, codeIn, codeOut>>

\* the answer_data as submit_answers caches it
cache_answer_data(l) ==
    [k \in DOMAIN l.answer_data \cup {"submitted_at"} |->
        IF k = "submitted_at" THEN [clock |-> "app", call |-> l.call]
        ELSE l.answer_data[k]]

\* save_user_answer, and the receipt returned
SubmitCache(t) ==
    /\ pc[t] = "submit_cache"
    /\ \E fate \in {"ok", "fail_1"} :
        LET l == loc[t]
        IN  IF fate = "ok"
            THEN /\ cache' = save_user_answer(cache, l.paper_id, l.user_id, cache_answer_data(l))
                 /\ last' = SubmitOutcome(l, "ok", "none",
                                {AnswerKey(l.paper_id, l.user_id)})
            ELSE /\ cache' = cache
                 /\ last' = SubmitOutcome(l, "error", "cache", {})
    /\ pc' = [pc EXCEPT ![t] = "idle"]
    /\ loc' = [loc EXCEPT ![t] = Nil]
    /\ UNCHANGED <<dbPapers, dbAnswers, nGenerate, nSubmit, nShortTick, scoreTasks, scoreOut, codeIn, codeOut>>

\* GET /paper/shared/{paper_id}
GetPaperByIdOn(ids) ==
    \E paper_id \in ids, fate \in CacheFates :
        LET r == get_paper_by_id(cache, dbPapers, paper_id, fate)
        IN  /\ cache' = r.c
            /\ last' = NoOutcome
            /\ UNCHANGED <<dbPapers, dbAnswers, pc, loc, nGenerate, nSubmit, nShortTick, scoreTasks, scoreOut, codeIn, codeOut>>

GetPaperById == GetPaperByIdOn(PaperIds)

\* GET /paper/access/{access_code}
GetPaperByAccessCode ==
    \E access_code \in Codes, fate \in CacheFates :
        LET r == get_paper_by_access_code(cache, dbPapers, access_code, fate)
        IN  /\ cache' = r.c
            /\ last' = NoOutcome
            /\ UNCHANGED <<dbPapers, dbAnswers, pc, loc, nGenerate, nSubmit, nShortTick, scoreTasks, scoreOut, codeIn, codeOut>>

\* GET /paper/shared/{paper_id}/result/{user_id}
GetUserResult ==
    \E paper_id \in PaperIds, user_id \in Users, fate \in {"ok", "fail_1"} :
        LET r == get_user_result(cache, dbAnswers, paper_id, user_id, fate)
        IN  /\ cache' = r.c
            /\ last' = NoOutcome
            /\ UNCHANGED <<dbPapers, dbAnswers, pc, loc, nGenerate, nSubmit, nShortTick, scoreTasks, scoreOut, codeIn, codeOut>>

\* PaperDao.update_paper_status
UpdatePaperStatus ==
    \E paper_id \in PaperIds, status \in Statuses, ok \in BOOLEAN :
        LET r == update_paper_status(dbPapers, paper_id, status, ok)
        IN  /\ dbPapers' = r.papers
            /\ last' = NoOutcome
            /\ UNCHANGED <<dbAnswers, cache, pc, loc, nGenerate, nSubmit, nShortTick, scoreTasks, scoreOut, codeIn, codeOut>>

\* PaperDao.delete_paper
DeletePaperOn(ids) ==
    \E paper_id \in ids, ok \in BOOLEAN :
        LET r == delete_paper(dbPapers, dbAnswers, paper_id, ok)
        IN  /\ dbPapers' = r.papers
            /\ dbAnswers' = r.rows
            /\ last' = NoOutcome
            /\ UNCHANGED <<cache, pc, loc, nGenerate, nSubmit, nShortTick, scoreTasks, scoreOut, codeIn, codeOut>>

DeletePaper == DeletePaperOn(PaperIds)

\* POST /paper/generate: the questions go to the scratch state of the chat
RouterGeneratePaper ==
    \E user_id \in Users, chat_id \in Chats, run \in GeneratorRuns,
       fate \in {"ok", "fail_1"} :
        LET gen == generate_training_questions(run[1], run[2])
            cache_data == [questions |-> gen.questions,
                           total_count |-> Len(gen.questions),
                           user_id |-> user_id,
                           chat_id |-> chat_id,
                           created_at |-> [clock |-> "app", call |-> "generate"]]
            saved == gen.ok /\ fate = "ok"
        IN  /\ cache' = IF saved
                        THEN save_generated_paper(cache, user_id, chat_id, cache_data)
                        ELSE cache
            /\ last' = NoOutcome
            /\ UNCHANGED <<dbPapers, dbAnswers, pc, loc, nGenerate, nSubmit, nShortTick, scoreTasks, scoreOut, codeIn, codeOut>>

\* POST /paper/analyze: the answers are scored against the scratch state
\* that get_generated_paper returns; the response is all the scoring yields,
\* the hit of the getter is all that reaches the cache
RouterAnalyzePaper ==
    \E user_id \in Users, chat_id \in Chats :
        LET rd == get_generated_paper(cache, user_id, chat_id)
        IN  /\ cache' = rd.c
            /\ last' = NoOutcome
            /\ UNCHANGED <<dbPapers, dbAnswers, pc, loc, nGenerate, nSubmit, nShortTick, scoreTasks, scoreOut, codeIn, codeOut>>

\* the time of the cache passes, by days or by hours: every entry ages,
\* the aged-out ones go
Tick ==
    /\ \E k \in Keys : cache[k] # Nil
    /\ \E d \in {TickSeconds, ShortTickSeconds} :
        /\ d = ShortTickSeconds => nShortTick < MaxShortTick
        /\ nShortTick' = IF d = ShortTickSeconds THEN nShortTick + 1 ELSE nShortTick
        /\ cache' = [k \in Keys |->
                        IF cache[k] = Nil THEN Nil
                        ELSE IF cache[k].ttl - d <= 0 THEN Nil
                        ELSE [val |-> cache[k].val, ttl |-> cache[k].ttl - d]]
    /\ last' = NoOutcome
    /\ UNCHANGED <<dbPapers, dbAnswers, pc, loc, nGenerate, nSubmit, scoreTasks, scoreOut, codeIn, codeOut>>

\* the cache drops an entry (eviction, flush of a key)
Evict ==
    \E k \in Keys :
        /\ cache[k] # Nil
        /\ cache' = RedisDelete(cache, k)
        /\ last' = NoOutcome
        /\ UNCHANGED <<dbPapers, dbAnswers, pc, loc, nGenerate, nSubmit, nShortTick, scoreTasks, scoreOut, codeIn, codeOut>>

Threaded(t) ==
    \/ GenerateBegin(t)
    \/ GenerateDurable(t)
    \/ GenerateCache(t)
    \/ SubmitBegin(t)
    \/ SubmitDurable(t)
    \/ SubmitCache(t)

Reads ==
    \/ GetPaperById
    \/ GetPaperByAccessCode
    \/ GetUserResult

Admin ==
    \/ UpdatePaperStatus
    \/ DeletePaper

\* Requests run concurrently on the request threads.  The cache may drop
\* any entry at any time, which covers the expiry of its TTL.
Next == (\E t \in Procs : Threaded(t)) \/ Reads \/ Admin \/ Evict

Spec == Init /\ [][Next]_vars

\* One request at a time: a call returns before the next one starts.
NextSeq ==
    \/ Threaded(1)
    \/ AllIdle /\ GetPaperById
    \/ AllIdle /\ GetPaperByAccessCode
    \/ AllIdle /\ GetUserResult
    \/ AllIdle /\ UpdatePaperStatus
    \/ AllIdle /\ DeletePaper
    \/ AllIdle /\ Evict

SpecSeq == Init /\ [][NextSeq]_vars

\* One request at a time, with the cache's clock and the scratch state of
\* the chat-bound generate/analyze endpoints; entries leave by aging out.
NextTTL ==
    \/ Threaded(1)
    \/ AllIdle /\ GetPaperById
    \/ AllIdle /\ GetPaperByAccessCode
    \/ AllIdle /\ GetUserResult
    \/ AllIdle /\ RouterGeneratePaper
    \/ AllIdle /\ RouterAnalyzePaper
    \/ AllIdle /\ Tick

SpecTTL == Init /\ [][NextTTL]_vars

\* Paper generation alone, on the request threads at once, with fresh paper
\* ids; papers leave by delete_paper, cache entries by eviction.
NextGen ==
    \/ \E t \in Procs : GenerateBeginOn(t, AllPaperIds, MaxGenerateConcurrent)
    \/ \E t \in Procs : GenerateDurable(t)
    \/ \E t \in Procs : GenerateCache(t)
    \/ GetPaperByAccessCode
    \/ Evict

SpecGen == Init /\ [][NextGen]_vars

\* Submissions and re-submissions of one paper on the request threads at
\* once; nothing is read, deleted or evicted meanwhile.
NextRace ==
    \/ \E t \in Procs : GenerateBegin(t)
    \/ \E t \in Procs : GenerateDurable(t)
    \/ \E t \in Procs : GenerateCache(t)
    \/ \E t \in Procs : SubmitBeginOn(t, PaperIds, MaxSubmitConcurrent)
    \/ \E t \in Procs : SubmitDurable(t)
    \/ \E t \in Procs : SubmitCache(t)

SpecRace == Init /\ [][NextRace]_vars

\* Two papers and their submissions, one request at a time on a thread
\* while papers are deleted.
NextDel ==
    \/ GenerateBeginOn(1, AllPaperIds, MaxGenerateConcurrent)
    \/ GenerateDurable(1)
    \/ GenerateCache(1)
    \/ SubmitBeginOn(1, AllPaperIds, MaxSubmit)
    \/ SubmitDurable(1)
    \/ SubmitCache(1)
    \/ DeletePaperOn(AllPaperIds)

SpecDel == Init /\ [][NextDel]_vars

\* the ids in the order generate_paper_id returns them
PaperIdSeq == <<"P1", "P2">>

\* one id for every call
generate_paper_id_constant(n) == PaperIdSeq[1]

\* generate_paper_id(): the date and 8 hex digits of a uuid4, the n-th
\* call returning an id no earlier call returned
generate_paper_id(n) == PaperIdSeq[n]

\* Papers generated on the request threads at once, each under the id
\* generate_paper_id returns, read by id and by access code, evicted from
\* the cache and deleted.
NextMap ==
    \/ \E t \in Procs :
           GenerateBeginOn(t, {generate_paper_id(nGenerate + 1)}, Len(PaperIdSeq))
    \/ \E t \in Procs : GenerateDurable(t)
    \/ \E t \in Procs : GenerateCache(t)
    \/ GetPaperByIdOn(AllPaperIds)
    \/ GetPaperByAccessCode
    \/ Evict
    \/ DeletePaperOn(AllPaperIds)

SpecMap == Init /\ [][NextMap]_vars

\* One paper and its submissions, one request at a time, the answer lists
\* that repeat or leave out questions among them.
NextSub ==
    \/ GenerateBegin(1)
    \/ GenerateDurable(1)
    \/ GenerateCache(1)
    \/ SubmitBeginWith(1, PaperIds, MaxSubmit, AnswerLists \cup PartialAnswerLists)
    \/ SubmitDurable(1)
    \/ SubmitCache(1)
    \/ AllIdle /\ GetUserResult

SpecSub == Init /\ [][NextSub]_vars

(***************************************************************************)
(* The scoring engine on its own: process_ai_analysis_results and          *)
(* calculate_question_score applied to analysis tasks of every shape.      *)
(***************************************************************************)
OptionIds == <<"A", "B", "C">>
UserIds == {"A", "B", "C", "D"}

\* the options of a question, those of flagged marked is_correct
options_flagged(flagged) ==
    [i \in 1..Len(OptionIds) |->
        [id |-> OptionIds[i], text |-> "t", is_correct |-> OptionIds[i] \in flagged,
         explanation |-> "e"]]

\* an analysis task as build_analysis_tasks_from_cache builds it
ScoreTask(question_type, flagged, user_answer, i) ==
    [question_id |-> ToString(i),
     question_type |-> question_type,
     question_text |-> "q",
     user_answer |-> user_answer,
     options |-> options_flagged(flagged)]

SingleAnswers ==
    {StrAnswer(<<x>>) : x \in UserIds}
    \cup {StrAnswer(<<>>), StrAnswer(<<" ", "B", " ">>),
          ListAnswer(<<>>), ListAnswer(<<"B">>), ListAnswer(<<"C", "A">>),
          ListAnswer(<<"D">>)}

MultiAnswers ==
    {ListAnswer(SortedIds(U)) : U \in SUBSET UserIds}
    \cup {ListAnswer(<<"A", "A">>), ListAnswer(<<"C", "A">>),
          StrAnswer(<<"A", ",", "C">>), StrAnswer(<<>>),
          StrAnswer(<<" ", "A", ",", "B", " ">>),
          StrAnswer(<<"A", ",", " ", "C">>)}

SingleTasks ==
    {ScoreTask(question_type, flagged, user_answer, 1) :
        question_type \in {"single_choice", L_SINGLE},
        flagged \in SUBSET Range(OptionIds),
        user_answer \in SingleAnswers}

MultiTasks ==
    {ScoreTask(question_type, flagged, user_answer, 1) :
        question_type \in {"multiple_choice", L_MULTI},
        flagged \in SUBSET Range(OptionIds),
        user_answer \in MultiAnswers}

OtherTasks ==
    {ScoreTask(question_type, flagged, user_answer, 1) :
        question_type \in {"true_false", L_TRUE_FALSE, "fill_blank", L_FILL_BLANK,
                           "essay", ""},
        flagged \in SUBSET Range(OptionIds),
        user_answer \in SingleAnswers \cup {ListAnswer(<<"A", "C">>)}}

\* ','.join(ids) for one-character ids: the legacy form of a list answer,
\* the empty string for the empty list
RECURSIVE CommaJoined(_)
CommaJoined(ids) ==
    IF ids = <<>> THEN <<>>
    ELSE IF Len(ids) = 1 THEN IdStr(ids[1])
    ELSE IdStr(ids[1]) \o <<",">> \o CommaJoined(Tail(ids))

\* the lists of ids a client may send for a multiple-choice question
MultiLists ==
    {SortedIds(U) : U \in SUBSET UserIds}
    \cup {<<"A", "A">>, <<"C", "A">>, <<"D", "C", "B", "A">>}

\* one multiple-choice question answered with a list and with the
\* comma-separated string of that list
LegacyPairTasks ==
    {<<ScoreTask(question_type, flagged, ListAnswer(ids), 1),
       ScoreTask(question_type, flagged, StrAnswer(CommaJoined(ids)), 2)>> :
        question_type \in {"multiple_choice", L_MULTI},
        flagged \in SUBSET Range(OptionIds),
        ids \in MultiLists}

\* a task scored in full, one scored half, one scored nothing
FullTask(i) == ScoreTask(L_SINGLE, {"B"}, StrAnswer(<<"B">>), i)
HalfTask(i) == ScoreTask(L_MULTI, {"A", "C"}, ListAnswer(<<"A">>), i)
ZeroTask(i) == ScoreTask(L_SINGLE, {"B"}, StrAnswer(<<"A">>), i)

\* a submission of n, m and k such tasks
MixedTasks(n, m, k) ==
    [i \in 1..(n + m + k) |->
        IF i <= n THEN FullTask(i)
        ELSE IF i <= n + m THEN HalfTask(i) ELSE ZeroTask(i)]

ScoreTaskLists ==
    {<<task>> : task \in SingleTasks \cup MultiTasks \cup OtherTasks}
    \cup LegacyPairTasks
    \cup {MixedTasks(c[1], c[2], c[3]) :
              c \in {c \in (0..MaxTasks) \X (0..MaxTasks) \X (0..1) :
                        c[1] + c[2] + c[3] \in 1..MaxTasks}}

\* the parsed replies of the explanation generator to a batch of tasks
AiShapes == {"complete", "partial", "empty", "no_results", "other_ids", "duplicate"}
AiResults(shape, tasks) ==
    CASE shape = "complete" ->
            [results |-> [i \in 1..Len(tasks) |->
                [question_id |-> tasks[i].question_id, explanation |-> "ai feedback"]]]
      [] shape = "partial" ->
            [results |-> [i \in 1..((Len(tasks) + 1) \div 2) |->
                [question_id |-> tasks[2 * i - 1].question_id,
                 explanation |-> "ai feedback"]]]
      [] shape = "empty" -> [results |-> <<>>]
      [] shape = "no_results" -> [error |-> "no analysis"]
      [] shape = "other_ids" ->
            [results |-> <<[question_id |-> "0", explanation |-> "ai feedback"]>>]
      [] OTHER ->
            [results |-> [i \in 1..(2 * Len(tasks)) |->
                [question_id |-> tasks[(i + 1) \div 2].question_id,
                 explanation |-> IF i % 2 = 1 THEN "ai draft" ELSE "ai feedback"]]]

InitScore ==
    /\ dbPapers = [p \in AllPaperIds |-> Nil]
    /\ dbAnswers = <<>>
    /\ cache = [k \in Keys |-> Nil]
    /\ pc = [t \in Procs |-> "idle"]
    /\ loc = [t \in Procs |-> Nil]
    /\ nGenerate = 0
    /\ nSubmit = 0
    /\ nShortTick = 0
    /\ last = NoOutcome
    /\ scoreTasks \in ScoreTaskLists
    /\ scoreOut = [op |-> "none"]
    /\ codeIn = [kind |-> "none"]
    /\ codeOut = [op |-> "none"]

\* calculate_question_score on each task
CalculateQuestionScore ==
    /\ scoreOut' = [op |-> "calculate_question_score",
                    score_info |-> [i \in 1..Len(scoreTasks) |->
                                       calculate_question_score(scoreTasks[i])]]
    /\ UNCHANGED <<dbPapers, dbAnswers, cache, pc, loc, nGenerate, nSubmit,
                   nShortTick, last, scoreTasks, codeIn, codeOut>>

\* process_ai_analysis_results on the tasks and a reply of the generator
ProcessAiAnalysisResults ==
    /\ \E shape \in AiShapes :
        LET processed(ai_results) ==
                [op |-> "process_ai_analysis_results",
                 ai_results |-> ai_results,
                 result |-> process_ai_analysis_results(ai_results, scoreTasks)]
        IN  scoreOut' = processed(AiResults(shape, scoreTasks))
    /\ UNCHANGED <<dbPapers, dbAnswers, cache, pc, loc, nGenerate, nSubmit,
                   nShortTick, last, scoreTasks, codeIn, codeOut>>

NextScore ==
    \/ CalculateQuestionScore
    \/ ProcessAiAnalysisResults

SpecScore == InitScore /\ [][NextScore]_vars

(***************************************************************************)
(* The access-code utilities on their own: codes issued from random picks  *)
(* and codes, well-formed or not, put to validate_access_code.             *)
(***************************************************************************)
\* the random choices of one generate_access_code() call: every character
\* of the alphabet comes up, at every position
PickRuns ==
    {[i \in 1..access_code_length |-> ((a + i * b) % Len(chars)) + 1] :
        a \in 0..(Len(chars) - 1), b \in 0..MaxStride}

\* what a caller may put to validate_access_code: the letter A repeated,
\* one character replaced
CandidateChars == {"A", "Z", "2", "9", "0", "O", "I", "1", "a", "-", " "}
CandidateCodes ==
    {[i \in 1..n |-> IF i = k THEN c ELSE "A"] :
        n \in 0..MaxCodeLen, k \in 1..MaxCodeLen, c \in CandidateChars}

InitCode ==
    /\ dbPapers = [p \in AllPaperIds |-> Nil]
    /\ dbAnswers = <<>>
    /\ cache = [k \in Keys |-> Nil]
    /\ pc = [t \in Procs |-> "idle"]
    /\ loc = [t \in Procs |-> Nil]
    /\ nGenerate = 0
    /\ nSubmit = 0
    /\ nShortTick = 0
    /\ last = NoOutcome
    /\ scoreTasks = <<>>
    /\ scoreOut = [op |-> "none"]
    /\ codeIn \in {[kind |-> "picks", picks |-> picks] : picks \in PickRuns}
                 \cup {[kind |-> "code", code |-> code] : code \in CandidateCodes}
    /\ codeOut = [op |-> "none"]

\* generate_access_code()
GenerateAccessCode ==
    /\ codeIn.kind = "picks"
    /\ codeOut' = [op |-> "generate_access_code",
                   code |-> generate_access_code(access_code_length, codeIn.picks)]
    /\ UNCHANGED <<dbPapers, dbAnswers, cache, pc, loc, nGenerate, nSubmit,
                   nShortTick, last, scoreTasks, scoreOut, codeIn>>

\* validate_access_code on the caller's code, or on a code just issued
ValidateAccessCode ==
    /\ LET validated(access_code) ==
               [op |-> "validate_access_code",
                code |-> access_code,
                issued |-> codeIn.kind = "picks",
                valid |-> validate_access_code(access_code)]
       IN  codeOut' = validated(IF codeIn.kind = "picks"
                                THEN generate_access_code(access_code_length, codeIn.picks)
                                ELSE codeIn.code)
    /\ UNCHANGED <<dbPapers, dbAnswers, cache, pc, loc, nGenerate, nSubmit,
                   nShortTick, last, scoreTasks, scoreOut, codeIn>>

NextCode ==
    \/ GenerateAccessCode
    \/ ValidateAccessCode

SpecCode == InitCode /\ [][NextCode]_vars

(***************************************************************************)
(* The contract of the two-tier store, claim by claim.                     *)
(***************************************************************************)

\* C1: in generate_shared_paper and in submit_answers (first submission and
\* re-submission) the cache write is attempted only after the durable write
\* has committed; a call whose durable write failed writes no cache entry.
C1_CacheWriteOnlyAfterDurableCommit ==
    /\ \A t \in Procs :
          pc[t] \in {"generate_cache", "submit_cache"} => loc[t].dbCommitted
    /\ last.op \in {"generate", "submit"} =>
          (last.wrote # {} => last.dbCommitted)

\* C2: a generate_shared_paper or submit_answers call whose durable write
\* did not commit never returns a success summary or receipt.
C2_DurableFailureFailsTheCall ==
    last.op \in {"generate", "submit"} =>
        (last.status = "ok" => last.dbCommitted)

\* C3: a failure of the explanation generator does not make submit_answers
\* fail: when a submit call whose generator failed ends in an error, the
\* error comes from the durable store or from the cache, never from the
\* analysis.
C3_GeneratorFailureDoesNotAbortSubmit ==
    (last.op = "submit" /\ last.aiFailed /\ last.status = "error") =>
        last.reason \in {"durable store", "cache"}

\* C4: under every interleaving of concurrent submit_answers calls the
\* durable store holds at most one record per (paper_id, user_id).
C4_AtMostOneRecordPerKey ==
    \A p \in PaperIds, u \in Users :
        Cardinality(answer_rows(dbAnswers, p, u)) <= 1

\* C5: after a second, sequential submit_answers call for the same
\* (paper_id, user_id) has returned its receipt, the durable store holds
\* exactly one record for the key, and that record and the cache entry carry
\* the answers, per-question results, score, correct count and overall
\* feedback of the second call.
C5_ResubmissionOverwrites ==
    (last.op = "submit" /\ last.status = "ok" /\ last.existing) =>
        LET d == last.answer_data
            found == answer_rows(dbAnswers, last.paper_id, last.user_id)
            row == dao_get_user_answer(dbAnswers, last.paper_id, last.user_id)
            entry == cache[AnswerKey(last.paper_id, last.user_id)]
        IN  /\ Cardinality(found) = 1
            /\ row.answers = [json |-> d.answers]
            /\ row.analysis_results = [json |-> d.analysis_results]
            /\ row.score = d.score
            /\ row.correct_count = d.correct_count
            /\ row.overall_feedback = d.overall_feedback
            /\ entry # Nil
            /\ entry.val.answers = d.answers
            /\ entry.val.analysis_results = d.analysis_results
            /\ entry.val.score = d.score
            /\ entry.val.correct_count = d.correct_count
            /\ entry.val.overall_feedback = d.overall_feedback

\* C6: whatever the state of the two tiers, get_paper_by_id and
\* get_paper_by_access_code return no paper whose durable status is other
\* than 'active', on the cache-hit path as on the durable-store path.
C6_OnlyActivePapersServed ==
    AllIdle =>
        \A fate \in CacheFates :
            /\ \A p \in PaperIds :
                  LET r == get_paper_by_id(cache, dbPapers, p, fate)
                  IN  (r.result # Nil /\ dbPapers[p] # Nil) =>
                          dbPapers[p].status = "active"
            /\ \A k \in Codes :
                  LET r == get_paper_by_access_code(cache, dbPapers, k, fate)
                  IN  (r.result # Nil /\ dbPapers[r.result.paper_id] # Nil) =>
                          dbPapers[r.result.paper_id].status = "active"

\* C7: submit_answers stores nothing and returns no receipt for a paper_id
\* whose paper does not exist or is inactive at the time of the call.
C7_NoSubmissionForMissingOrInactivePaper ==
    /\ \A t \in Procs :
          pc[t] \in {"submit_db", "submit_cache"} =>
              /\ dbPapers[loc[t].paper_id] # Nil
              /\ dbPapers[loc[t].paper_id].status = "active"
    /\ (last.op = "submit" /\ last.status = "ok") =>
          /\ dbPapers[last.paper_id] # Nil
          /\ dbPapers[last.paper_id].status = "active"

\* C8: every option of every paper view that get_paper_by_id or
\* get_paper_by_access_code returns, from the cache or from the durable
\* store re-seeding the cache, carries its id and its text and nothing
\* else: neither is_correct nor explanation.
C8_ViewsHideAnswers ==
    \A fate \in CacheFates :
        /\ \A p \in PaperIds :
              LET r == get_paper_by_id(cache, dbPapers, p, fate)
              IN  r.result # Nil =>
                      \A i \in 1..Len(r.result.questions) :
                          \A j \in 1..Len(r.result.questions[i].options) :
                              DOMAIN r.result.questions[i].options[j] = {"id", "text"}
        /\ \A k \in Codes :
              LET r == get_paper_by_access_code(cache, dbPapers, k, fate)
              IN  r.result # Nil =>
                      \A i \in 1..Len(r.result.questions) :
                          \A j \in 1..Len(r.result.questions[i].options) :
                              DOMAIN r.result.questions[i].options[j] = {"id", "text"}

\* C8, its case: the cache entry of a paper was re-seeded from the durable
\* store by a read (it carries no documents), the stored options carry
\* is_correct, and the paper is served by id and by its access code.
C8_Witness ==
    \E p \in PaperIds :
        /\ cache[PaperKey(p)] # Nil
        /\ cache[PaperKey(p)].val.documents = <<>>
        /\ \E i \in 1..Len(cache[PaperKey(p)].val.questions) :
              \E j \in 1..Len(cache[PaperKey(p)].val.questions[i].options) :
                  "is_correct" \in DOMAIN cache[PaperKey(p)].val.questions[i].options[j]
        /\ get_paper_by_id(cache, dbPapers, p, "ok").via = "cache"
        /\ get_paper_by_access_code(cache, dbPapers,
               cache[PaperKey(p)].val.access_code, "ok").result # Nil

\* C9: a read that misses the cache and finds its object in the durable
\* store leaves the cache such that the same read, repeated at once, does
\* not query the durable store; a read that finds its object in neither
\* tier returns None and leaves the cache as it was.
C9_ReadReseedsTheCache ==
    AllIdle =>
        \A fate \in CacheFates :
            /\ \A p \in PaperIds :
                  LET r == get_paper_by_id(cache, dbPapers, p, fate)
                  IN  /\ (r.dbQueried /\ r.result # Nil) =>
                             ~get_paper_by_id(r.c, dbPapers, p, fate).dbQueried
                      /\ (r.dbQueried /\ ~r.dbFound) =>
                             (r.result = Nil /\ r.c = cache)
            /\ \A k \in Codes :
                  LET r == get_paper_by_access_code(cache, dbPapers, k, fate)
                  IN  /\ (r.dbQueried /\ r.result # Nil) =>
                             ~get_paper_by_access_code(r.c, dbPapers, k, fate).dbQueried
                      /\ (r.dbQueried /\ ~r.dbFound) =>
                             (r.result = Nil /\ r.c = cache)
            /\ \A p \in PaperIds, u \in Users :
                  LET r == get_user_result(cache, dbAnswers, p, u, fate)
                  IN  /\ (r.dbQueried /\ r.result # Nil) =>
                             ~get_user_result(r.c, dbAnswers, p, u, fate).dbQueried
                      /\ (r.dbQueried /\ ~r.dbFound) =>
                             (r.result = Nil /\ r.c = cache)

\* C10: a hit of any getter of the cache leaves the entry it hit with the
\* full TTL of its family: 7 days for shared papers, access-code mappings
\* and submissions, 24 hours for the scratch state of paper generation.
C10_HitResetsTTL ==
    /\ \A p \in PaperIds :
          LET r == get_shared_paper(cache, p)
          IN  r.found => r.c[PaperKey(p)].ttl = 7 * 24 * 3600
    /\ \A k \in Codes :
          LET r == get_paper_id_by_access_code(cache, k)
          IN  r.found => r.c[MapKey(k)].ttl = 7 * 24 * 3600
    /\ \A p \in PaperIds, u \in Users :
          LET r == get_user_answer_cached(cache, p, u)
          IN  r.found => r.c[AnswerKey(p, u)].ttl = 7 * 24 * 3600
    /\ \A u \in Users, ch \in Chats :
          LET r == get_generated_paper(cache, u, ch)
          IN  r.found => r.c[GenerateKey(u, ch)].ttl = 24 * 3600
    /\ \A k \in Keys : cache[k] # Nil => cache[k].ttl \in 1..FamilyTTL(k)

\* C10, its case: the paper entry that generate_shared_paper wrote together
\* with its mapping stands at the full TTL again after a hit while the
\* mapping has aged, and an aged scratch entry is about to be hit.
C10_Witness ==
    /\ \E p \in PaperIds :
          /\ cache[PaperKey(p)] # Nil
          /\ cache[PaperKey(p)].val.documents # <<>>
          /\ cache[PaperKey(p)].ttl = SHARED_PAPER_TTL
          /\ cache[MapKey(cache[PaperKey(p)].val.access_code)] # Nil
          /\ cache[MapKey(cache[PaperKey(p)].val.access_code)].ttl < SHARED_PAPER_TTL
    /\ \E u \in Users, ch \in Chats :
          /\ cache[GenerateKey(u, ch)] # Nil
          /\ cache[GenerateKey(u, ch)].ttl < PAPER_CACHE_TTL

\* C11: in every reachable state no two papers of the durable store share
\* an access code, also when concurrent generate_shared_paper calls drew the
\* same code and both passed the existence check before either persisted.
C11_AccessCodesUnique ==
    \A p \in AllPaperIds, q \in AllPaperIds :
        (p # q /\ dbPapers[p] # Nil /\ dbPapers[q] # Nil) =>
            dbPapers[p].access_code # dbPapers[q].access_code

\* C11, its case: two calls hold the same access code, both past the
\* existence check; one has persisted its paper, the other is about to.
C11_Witness ==
    \E t \in Procs, u \in Procs :
        /\ t # u
        /\ pc[t] = "generate_cache"
        /\ pc[u] = "generate_db"
        /\ loc[t].access_code = loc[u].access_code
        /\ loc[t].paper_id # loc[u].paper_id
        /\ dbPapers[loc[t].paper_id] # Nil

\* C12: when every candidate code exists already, generate_unique_access_code
\* makes exactly max_attempts = 10 checks and fails; the generate_shared_paper
\* call then fails without a call of the question generator and leaves the
\* durable store and the cache as they were.
C12_ExhaustedAttempts ==
    [][ /\ \A d1 \in Codes, d2 \in Codes :
              LET draws == [i \in 1..max_attempts |-> IF i = 1 THEN d1 ELSE d2]
                  r == generate_unique_access_code(draws, dbPapers)
              IN  (\A i \in 1..max_attempts :
                       dao_get_paper_by_access_code(dbPapers, draws[i]) # Nil) =>
                      (~r.ok /\ r.checks = 10)
        /\ (last'.op = "generate" /\ last'.reason = "exhausted attempts") =>
              /\ last'.status = "error"
              /\ last'.checks = 10
              /\ last'.generator_calls = 0
              /\ dbPapers' = dbPapers
              /\ cache' = cache
              /\ pc' = pc
      ]_vars

\* C12, its case: a generate_shared_paper call has just failed on the
\* exhausted attempts, a paper holding the drawn code being stored.
C12_Witness ==
    /\ last.op = "generate"
    /\ last.reason = "exhausted attempts"
    /\ \E p \in AllPaperIds : dbPapers[p] # Nil

\* C13: a generate_shared_paper or submit_answers call whose durable write
\* committed returns success to its caller also when its cache write fails.
C13_CacheFailureIsNotFatal ==
    (last.op \in {"generate", "submit"} /\ last.dbCommitted) => last.status = "ok"

\* C14: a submit_answers call with an answer to a question_id the paper does
\* not have fails on the validation, whatever the explanation generator
\* would reply, and leaves the durable store and the content of the cache
\* as they were: an existing submission of the user keeps its content.
C14_UnknownQuestionRejected ==
    [][ /\ \A p \in PaperIds :
              dbPapers[p] # Nil =>
                  \A answers \in AnswerLists \cup
                        {<<[question_id |-> "1", user_answer |-> StrAnswer(<<"B">>)],
                           [question_id |-> "9", user_answer |-> StrAnswer(<<"A">>)]>>} :
                      (\E i \in 1..Len(answers) :
                           \A j \in 1..Len(dbPapers[p].questions.json) :
                               dbPapers[p].questions.json[j].question_id
                                   # answers[i].question_id)
                      => build_analysis_tasks_from_cache(
                             dbPapers[p].questions.json, answers) = Nil
        /\ (last'.op = "submit" /\ last'.reason = "unknown question") =>
              /\ last'.status = "error"
              /\ ~last'.aiFailed
              /\ dbAnswers' = dbAnswers
              /\ dbPapers' = dbPapers
              /\ pc' = pc
              /\ \A k \in Keys :
                    /\ (cache'[k] = Nil) = (cache[k] = Nil)
                    /\ cache[k] # Nil => cache'[k].val = cache[k].val
      ]_vars

\* C14, its case: a re-submission has just been rejected for an unknown
\* question_id while the submission of the user is stored and cached.
C14_Witness ==
    /\ last.op = "submit"
    /\ last.reason = "unknown question"
    /\ last.existing
    /\ cache[AnswerKey(last.paper_id, last.user_id)] # Nil

\* C15: a generate_shared_paper call whose generator yields zero questions
\* is rejected with the empty-paper error before anything is persisted, so
\* no call on its way to the durable store or to the cache carries an empty
\* paper, and every paper in the durable store has at least one question
\* and a total_count equal to the number of its questions.
C15_NoEmptyPaper ==
    [][ /\ (last'.op = "generate" /\ last'.reason = "empty paper") =>
              /\ last'.status = "error"
              /\ ~last'.dbCommitted
              /\ last'.wrote = {}
              /\ dbPapers' = dbPapers
              /\ cache' = cache
              /\ pc' = pc
        /\ \A t \in Procs :
              pc'[t] \in {"generate_db", "generate_cache"} =>
                  /\ loc'[t].questions # <<>>
                  /\ loc'[t].total_count = Len(loc'[t].questions)
        /\ \A p \in AllPaperIds :
              dbPapers'[p] # Nil =>
                  /\ Len(dbPapers'[p].questions.json) >= 1
                  /\ dbPapers'[p].total_count = Len(dbPapers'[p].questions.json)
        /\ \A p \in AllPaperIds :
              cache'[PaperKey(p)] # Nil =>
                  /\ cache'[PaperKey(p)].val.questions # <<>>
                  /\ cache'[PaperKey(p)].val.total_count
                         = Len(cache'[PaperKey(p)].val.questions)
      ]_vars

\* C15, its case: a call has just been rejected for an empty paper while
\* another paper is stored.
C15_Witness ==
    /\ last.op = "generate"
    /\ last.reason = "empty paper"
    /\ last.generator_calls = 1
    /\ \E p \in AllPaperIds : dbPapers[p] # Nil

\* C16: calculate_question_score on a single-choice task, the answer being
\* the stripped string or the first element of the list: the id of an
\* option flagged is_correct scores 10 with is_correct true, the id of
\* any other option scores 0 with is_correct false, and an id that no
\* option has scores 0 with the 'answer format error' explanation.
C16_SingleChoiceScoring ==
    scoreOut.op = "calculate_question_score" =>
        \A i \in 1..Len(scoreTasks) :
            LET task == scoreTasks[i]
                info == scoreOut.score_info[i]
                chosen_id == IF task.user_answer.t = "list"
                             THEN (IF task.user_answer.v = <<>> THEN <<>>
                                   ELSE <<task.user_answer.v[1]>>)
                             ELSE Strip(task.user_answer.v)
                chosen == {o \in Range(task.options) : <<o.id>> = chosen_id}
            IN  task.question_type \in {"single_choice", L_SINGLE} =>
                    /\ (\E o \in chosen : o.is_correct) =>
                           info.score = 10 /\ info.is_correct = TRUE
                    /\ (chosen # {} /\ \A o \in chosen : ~o.is_correct) =>
                           info.score = 0 /\ info.is_correct = FALSE
                    /\ chosen = {} =>
                           /\ info.score = 0
                           /\ info.is_correct = FALSE
                           /\ info.explanation = E_FORMAT

\* C16, its case: a single-choice question with two options flagged has
\* been scored on an answer, given with blanks around it, that is its
\* second flagged option.
C16_Witness ==
    /\ scoreOut.op = "calculate_question_score"
    /\ Len(scoreTasks) = 1
    /\ scoreTasks[1].question_type = L_SINGLE
    /\ scoreTasks[1].user_answer = StrAnswer(<<" ", "B", " ">>)
    /\ scoreTasks[1].options[1].is_correct
    /\ scoreTasks[1].options[2].is_correct
    /\ scoreOut.score_info[1].score = 10

\* C17: calculate_question_score on a multiple-choice task with correct set
\* C and normalized user set U: U = C (not empty) scores 10, U a strict
\* non-empty subset of C scores 5 with is_correct true, a U with an id
\* outside C scores 0, and the empty U scores 0 for every C, the empty C
\* included.
C17_MultipleChoiceScoring ==
    scoreOut.op = "calculate_question_score" =>
        \A i \in 1..Len(scoreTasks) :
            LET task == scoreTasks[i]
                info == scoreOut.score_info[i]
                C == {<<o.id>> : o \in {o \in Range(task.options) : o.is_correct}}
                U == user_option_set(task.user_answer)
            IN  task.question_type \in {"multiple_choice", L_MULTI} =>
                    /\ (U = C /\ U # {}) => info.score = 10 /\ info.is_correct = TRUE
                    /\ (U # {} /\ U \subseteq C /\ U # C) =>
                           info.score = 5 /\ info.is_correct = TRUE
                    /\ (U \ C # {}) => info.score = 0 /\ info.is_correct = FALSE
                    /\ U = {} => info.score = 0

\* C18: in the result of process_ai_analysis_results, total_score is the sum
\* of the scores of analysis_results, correct_count the number of its
\* entries with is_correct true, a half-scored multiple-choice answer
\* among them, and total_count the number of tasks; a single-choice task
\* answered correctly and a multiple-choice task {A,C} answered {A} give
\* 15, 2 and 2.
C18_AggregatesExact ==
    scoreOut.op = "process_ai_analysis_results" =>
        LET result == scoreOut.result
            entries == result.analysis_results
        IN  /\ Len(entries) = Len(scoreTasks)
            /\ result.total_count = Len(scoreTasks)
            /\ result.total_score = SumSeq([i \in 1..Len(entries) |-> entries[i].score])
            /\ result.correct_count
                   = Cardinality({i \in 1..Len(entries) : entries[i].is_correct})
            /\ \A i \in 1..Len(entries) :
                   entries[i].score = 5 => entries[i].is_correct
            /\ scoreTasks = <<FullTask(1), HalfTask(2)>> =>
                   /\ result.total_score = 15
                   /\ result.correct_count = 2
                   /\ result.total_count = 2

\* C18, its case: the two-task submission of the example has been
\* processed, the second entry correct at half the score.
C18_Witness ==
    /\ scoreOut.op = "process_ai_analysis_results"
    /\ scoreTasks = <<FullTask(1), HalfTask(2)>>
    /\ scoreOut.result.analysis_results[2].score = 5
    /\ scoreOut.result.analysis_results[2].is_correct
    /\ scoreOut.result.correct_count = 2

\* C19: the overall_feedback of a processed submission is the band of the
\* raw total_score: the highest of the thresholds 90, 80, 70, 60 that the
\* total reaches decides, a total below 60 gets the 'systematic review'
\* band whatever share of the tasks is correct, and a higher total never
\* gets a lower band.
C19_FeedbackBands ==
    scoreOut.op = "process_ai_analysis_results" =>
        LET total_score == scoreOut.result.total_score
            feedback == scoreOut.result.overall_feedback
            rank(f) == CASE f = F_REVIEW -> 0
                         [] f = F_PARTIAL -> 1
                         [] f = F_ADEQUATE -> 2
                         [] f = F_SOLID -> 3
                         [] f = F_EXCELLENT -> 4
        IN  /\ feedback \in {F_REVIEW, F_PARTIAL, F_ADEQUATE, F_SOLID, F_EXCELLENT}
            /\ (feedback = F_EXCELLENT) = (total_score >= 90)
            /\ (feedback = F_SOLID) = (total_score >= 80 /\ total_score < 90)
            /\ (feedback = F_ADEQUATE) = (total_score >= 70 /\ total_score < 80)
            /\ (feedback = F_PARTIAL) = (total_score >= 60 /\ total_score < 70)
            /\ (feedback = F_REVIEW) = (total_score < 60)
            /\ (scoreOut.result.correct_count = scoreOut.result.total_count
                    /\ scoreOut.result.total_count <= 5) => feedback = F_REVIEW
            /\ \A lower \in 0..total_score :
                   rank(overall_feedback_of(lower)) <= rank(feedback)

\* C19, its case: a submission whose total is exactly 90, one task of ten
\* wrong, is in the top band.
C19_Witness ==
    /\ scoreOut.op = "process_ai_analysis_results"
    /\ scoreOut.result.total_score = 90
    /\ scoreOut.result.total_count = 10
    /\ scoreOut.result.correct_count = 9
    /\ scoreOut.result.overall_feedback = F_EXCELLENT

\* C20: what process_ai_analysis_results returns for a submission does not
\* depend on the reply of the explanation generator, except for the
\* explanation texts: is_correct, score and correct_answer of every entry
\* are those of calculate_question_score, two replies in a row to the same
\* tasks give the same entries up to the explanations and the same
\* total_score, correct_count and overall_feedback, and the explanation of
\* an entry is the last one the reply gives for its question_id, or the
\* fallback placeholder when the reply gives none.
C20_ScoringIgnoresGenerator ==
    [][ scoreOut'.op = "process_ai_analysis_results" =>
          LET reply == scoreOut'.ai_results
              given == IF "results" \in DOMAIN reply THEN reply.results ELSE <<>>
              entries == scoreOut'.result.analysis_results
              scoring(e) == [is_correct |-> e.is_correct, score |-> e.score,
                             correct_answer |-> e.correct_answer]
          IN  /\ Len(entries) = Len(scoreTasks)
              /\ \A i \in 1..Len(entries) :
                    LET about == {j \in 1..Len(given) :
                                     given[j].question_id = scoreTasks[i].question_id}
                    IN  /\ scoring(entries[i])
                            = scoring(calculate_question_score(scoreTasks[i]))
                        /\ about = {} => entries[i].explanation = E_NO_FEEDBACK
                        /\ about # {} =>
                              entries[i].explanation
                                  = given[CHOOSE j \in about :
                                              \A k \in about : k <= j].explanation
              /\ scoreOut.op = "process_ai_analysis_results" =>
                    /\ \A i \in 1..Len(entries) :
                          scoring(entries[i])
                              = scoring(scoreOut.result.analysis_results[i])
                    /\ scoreOut'.result.total_score = scoreOut.result.total_score
                    /\ scoreOut'.result.correct_count = scoreOut.result.correct_count
                    /\ scoreOut'.result.total_count = scoreOut.result.total_count
                    /\ scoreOut'.result.overall_feedback
                           = scoreOut.result.overall_feedback
      ]_vars

\* C20, its case: a reply that explains the first task of two only has
\* been processed; the second, half-scored, has the placeholder.
C20_Witness ==
    /\ scoreOut.op = "process_ai_analysis_results"
    /\ scoreTasks = <<FullTask(1), HalfTask(2)>>
    /\ scoreOut.ai_results = AiResults("partial", scoreTasks)
    /\ scoreOut.result.analysis_results[1].explanation = "ai feedback"
    /\ scoreOut.result.analysis_results[2].explanation = E_NO_FEEDBACK
    /\ scoreOut.result.analysis_results[2].score = 5
    /\ scoreOut.result.total_score = 15

\* C21: the step in which delete_paper(p) succeeds, the only one in which a
\* paper leaves the durable store, also removes every submission row of p
\* and nothing else: the rows of the other papers stay, in their order,
\* and the other papers stay as they are.
C21_DeleteCascades ==
    [][ \A p \in AllPaperIds :
            (dbPapers[p] # Nil /\ dbPapers'[p] = Nil) =>
                LET kept(row) == row.paper_id # p
                IN  /\ \A i \in 1..Len(dbAnswers') : dbAnswers'[i].paper_id # p
                    /\ dbAnswers' = SelectSeq(dbAnswers, kept)
                    /\ \A q \in AllPaperIds \ {p} : dbPapers'[q] = dbPapers[q]
      ]_vars

\* C21, its case: a paper whose submission had been stored and cached has
\* been deleted with its row, while the other paper and its submission
\* are there.
C21_Witness ==
    \E p \in AllPaperIds, q \in AllPaperIds, u \in Users :
        /\ p # q
        /\ dbPapers[p] = Nil
        /\ cache[AnswerKey(p, u)] # Nil
        /\ \A i \in 1..Len(dbAnswers) : dbAnswers[i].paper_id # p
        /\ dbPapers[q] # Nil
        /\ \E i \in 1..Len(dbAnswers) : dbAnswers[i].paper_id = q

\* C22 as stated: every issued access code has 6 characters of an alphabet
\* of 33 symbols that has none of 0, O, I, 1.
C22_IssuedCodeAlphabet33 ==
    codeOut.op = "generate_access_code" =>
        /\ Len(codeOut.code) = 6
        /\ \A i \in 1..Len(codeOut.code) : codeOut.code[i] \in Range(chars)
        /\ Cardinality(Range(chars)) = 33
        /\ Range(chars) \cap {"0", "O", "I", "1"} = {}

\* C22, amended: every issued access code has 6 characters, each an
\* upper-case letter or a digit other than 0, O, I, 1: an alphabet of 32
\* symbols, the one the codes are drawn from.
C22_IssuedCodeAlphabet ==
    codeOut.op = "generate_access_code" =>
        LET alphabet == (Range(ascii_uppercase) \cup Range(digits))
                            \ {"0", "O", "I", "1"}
        IN  /\ Len(codeOut.code) = 6
            /\ \A i \in 1..Len(codeOut.code) : codeOut.code[i] \in alphabet
            /\ Cardinality(alphabet) = 32
            /\ Range(chars) = alphabet
            /\ Len(chars) = 32

\* C22, its case: a code with the last character of the alphabet and then
\* its first, next to the excluded letters, has been issued.
C22_Witness ==
    /\ codeOut.op = "generate_access_code"
    /\ codeOut.code[1] = "9"
    /\ codeOut.code[2] = "A"
    /\ Len(codeOut.code) = 6

\* C23: validate_access_code(code) is true exactly when the code has 4 to
\* 10 characters, each of the alphabet the codes are issued from (no 0, O,
\* I, 1); every issued code validates, and a code with one of the excluded
\* characters is rejected.
C23_ValidateRestrictedAlphabet ==
    codeOut.op = "validate_access_code" =>
        /\ codeOut.valid
               = (/\ Len(codeOut.code) >= 4
                  /\ Len(codeOut.code) <= 10
                  /\ \A i \in 1..Len(codeOut.code) : codeOut.code[i] \in Range(chars))
        /\ codeOut.issued => codeOut.valid
        /\ (\E i \in 1..Len(codeOut.code) : codeOut.code[i] \in {"0", "O", "I", "1"})
               => ~codeOut.valid

\* C24: a generate_shared_paper call invokes the question generator at most
\* twice, the second time only when the first call or its parse failed;
\* when the second fails too the call fails and persists nothing in the
\* durable store or the cache.
C24_OneRetry ==
    [][ /\ last'.op = "generate" =>
              /\ last'.generator_calls \in 0..2
              /\ last'.generator_calls = 2 => last'.first_call_failed
              /\ (last'.generator_calls = 2 /\ last'.reason = "generator failed") =>
                    /\ last'.status = "error"
                    /\ ~last'.dbCommitted
                    /\ last'.wrote = {}
                    /\ dbPapers' = dbPapers
                    /\ cache' = cache
                    /\ pc' = pc
        /\ \A t \in Procs :
              pc'[t] \in {"generate_db", "generate_cache"} =>
                  /\ loc'[t].generator_calls \in 1..2
                  /\ loc'[t].generator_calls = 2 => loc'[t].first_call_failed
      ]_vars

\* C24, its case: both calls of the generator failed and the call was
\* rejected, while another paper is stored.
C24_Witness ==
    /\ last.op = "generate"
    /\ last.reason = "generator failed"
    /\ last.generator_calls = 2
    /\ last.first_call_failed
    /\ \E p \in AllPaperIds : dbPapers[p] # Nil

\* C25: calculate_question_score on a task whose type is neither the
\* single-choice nor the multiple-choice one, true_false and fill_blank
\* included: whatever the answer, is_correct is false, the score is 0,
\* correct_answer is the ids of the options marked correct one after the
\* other, and the explanation is 'unknown question type'.
C25_UnknownTypeScoring ==
    scoreOut.op = "calculate_question_score" =>
        \A i \in 1..Len(scoreTasks) :
            LET task == scoreTasks[i]
                info == scoreOut.score_info[i]
                marked(option) == option.is_correct
                correct == SelectSeq(task.options, marked)
            IN  task.question_type
                    \notin {"single_choice", L_SINGLE, "multiple_choice", L_MULTI} =>
                    /\ info.is_correct = FALSE
                    /\ info.score = 0
                    /\ info.correct_answer = [j \in 1..Len(correct) |-> correct[j].id]
                    /\ info.explanation = E_UNKNOWN_TYPE

\* C25, its case: a true_false question with two options marked correct
\* has been scored on the answer that names one of them.
C25_Witness ==
    /\ scoreOut.op = "calculate_question_score"
    /\ Len(scoreTasks) = 1
    /\ scoreTasks[1].question_type = "true_false"
    /\ scoreTasks[1].user_answer = StrAnswer(<<"B">>)
    /\ scoreTasks[1].options[2].is_correct
    /\ scoreTasks[1].options[3].is_correct
    /\ scoreOut.score_info[1].correct_answer = <<"B", "C">>
    /\ scoreOut.score_info[1].score = 0

\* C26: a paper that is in the durable store before and after a step of any
\* operation (reads with their cache re-seeding, submit, get_result,
\* update_paper_status, the cache's evictions) has the same paper_id,
\* access_code, questions, total_count, created_at and owner after it;
\* only its status may differ.
C26_PaperImmutable ==
    [][ \A p \in AllPaperIds :
            (dbPapers[p] # Nil /\ dbPapers'[p] # Nil) =>
                /\ dbPapers'[p].paper_id = dbPapers[p].paper_id
                /\ dbPapers'[p].access_code = dbPapers[p].access_code
                /\ dbPapers'[p].questions = dbPapers[p].questions
                /\ dbPapers'[p].total_count = dbPapers[p].total_count
                /\ dbPapers'[p].created_at = dbPapers[p].created_at
                /\ dbPapers'[p].user_id = dbPapers[p].user_id
                /\ dbPapers'[p].paper_id = p
      ]_vars

\* C26, its case: a paper that has a submission and a cached copy has had
\* its status changed.
C26_Witness ==
    \E p \in PaperIds :
        /\ dbPapers[p] # Nil
        /\ dbPapers[p].status = "inactive"
        /\ dbPapers[p].total_count = Len(dbPapers[p].questions.json)
        /\ cache[PaperKey(p)] # Nil
        /\ \E i \in 1..Len(dbAnswers) : dbAnswers[i].paper_id = p

\* C27: when two overlapping submit_answers calls that both update the
\* stored submission of the same (paper_id, user_id), both committing
\* their update, have returned, one right after the other and both with
\* success, the cached submission of the key carries the answers and the
\* scores of the durable record.
C27_CacheAgreesAfterRace ==
    [][ ( /\ last.op = "submit" /\ last.status = "ok" /\ last.existing
          /\ last'.op = "submit" /\ last'.status = "ok" /\ last'.existing
          /\ last.dbCommitted /\ last'.dbCommitted
          /\ last'.paper_id = last.paper_id /\ last'.user_id = last.user_id
          /\ \A t \in Procs : pc'[t] = "idle" ) =>
            LET key == AnswerKey(last'.paper_id, last'.user_id)
                record == dao_get_user_answer(dbAnswers', last'.paper_id, last'.user_id)
            IN  /\ cache'[key] # Nil
                /\ record # Nil
                /\ record.answers = [json |-> cache'[key].val.answers]
                /\ record.score = cache'[key].val.score
                /\ record.correct_count = cache'[key].val.correct_count
                /\ record.analysis_results
                       = [json |-> cache'[key].val.analysis_results]
      ]_vars

\* C28: between requests, for every paper and every submission that is
\* cached, the view that get_paper_by_id and get_user_result return is the
\* view they return once the cache entry has been evicted, field by field
\* (documents, document_count, created_at, submitted_at, total_score and
\* the rest).
C28_EvictionInvisible ==
    AllIdle =>
        /\ \A p \in PaperIds :
              cache[PaperKey(p)] # Nil =>
                  get_paper_by_id(RedisDelete(cache, PaperKey(p)), dbPapers, p, "ok").result
                      = get_paper_by_id(cache, dbPapers, p, "ok").result
        /\ \A p \in PaperIds, u \in Users :
              cache[AnswerKey(p, u)] # Nil =>
                  get_user_result(RedisDelete(cache, AnswerKey(p, u)), dbAnswers, p, u,
                                  "ok").result
                      = get_user_result(cache, dbAnswers, p, u, "ok").result


\* C29: after the step in which delete_paper(p) succeeds, get_paper_by_id(p),
\* get_paper_by_access_code with the code of p and get_user_result(p, u)
\* all return None, whatever the cache held before the deletion.
C29_DeletedIsNotFound ==
    [][ \A p \in PaperIds :
            (dbPapers[p] # Nil /\ dbPapers'[p] = Nil) =>
                /\ get_paper_by_id(cache', dbPapers', p, "ok").result = Nil
                /\ get_paper_by_access_code(cache', dbPapers',
                                            dbPapers[p].access_code, "ok").result = Nil
                /\ \A u \in Users :
                      get_user_result(cache', dbAnswers', p, u, "ok").result = Nil
      ]_vars


\* C30: for a multiple-choice question, the answer given as the
\* comma-separated string of a list of ids (the empty string for the empty
\* list) receives the same is_correct and score as the list itself, for
\* every list and every set of correct options.
C30_LegacyStringAgrees ==
    scoreOut.op = "calculate_question_score" =>
        \A i \in 1..Len(scoreTasks), j \in 1..Len(scoreTasks) :
            LET a == scoreTasks[i]
                b == scoreTasks[j]
            IN  (/\ a.question_type \in {"multiple_choice", L_MULTI}
                 /\ b.question_type = a.question_type
                 /\ b.options = a.options
                 /\ a.user_answer.t = "list"
                 /\ b.user_answer = StrAnswer(CommaJoined(a.user_answer.v))) =>
                    /\ scoreOut.score_info[i].is_correct = scoreOut.score_info[j].is_correct
                    /\ scoreOut.score_info[i].score = scoreOut.score_info[j].score


\* C31: every submission accepted by submit_answers, also one whose answer
\* list repeats a question_id or leaves questions out, has a total score of
\* at most 10 times the number of questions of the paper and a total_count
\* equal to the paper's total_count.
C31_TotalsBoundedByPaper ==
    (last.op = "submit" /\ last.status = "ok" /\ dbPapers[last.paper_id] # Nil) =>
        /\ last.answer_data.score <= base_score * dbPapers[last.paper_id].total_count
        /\ last.answer_data.total_count = dbPapers[last.paper_id].total_count


\* C32: every score calculate_question_score gives is 0, 5 or 10 and is
\* positive exactly when is_correct is true; so in every result of
\* process_ai_analysis_results, which is what a submission stores, each
\* entry is such a score, 5 * correct_count <= total_score
\* <= 10 * correct_count and 0 <= correct_count <= total_count.
C32_ScoreMatchesCorrectness ==
    /\ scoreOut.op = "calculate_question_score" =>
          \A i \in 1..Len(scoreTasks) :
              LET info == scoreOut.score_info[i]
              IN  /\ info.score \in {0, half_score, base_score}
                  /\ info.is_correct \in BOOLEAN
                  /\ (info.score > 0) = info.is_correct
    /\ scoreOut.op = "process_ai_analysis_results" =>
          LET result == scoreOut.result
              entries == result.analysis_results
          IN  /\ \A i \in 1..Len(entries) :
                    /\ entries[i].score \in {0, half_score, base_score}
                    /\ (entries[i].score > 0) = entries[i].is_correct
              /\ half_score * result.correct_count <= result.total_score
              /\ result.total_score <= base_score * result.correct_count
              /\ 0 <= result.correct_count
              /\ result.correct_count <= result.total_count

\* C32, its case: a batch with two answers scored in full, one scored half
\* and one scored nothing has been processed: 25 points, 3 correct of 4.
C32_Witness ==
    /\ scoreOut.op = "process_ai_analysis_results"
    /\ Len(scoreTasks) = 4
    /\ scoreOut.result.total_score = 25
    /\ scoreOut.result.correct_count = 3
    /\ scoreOut.result.total_count = 4
    /\ \E i \in 1..4 : scoreOut.result.analysis_results[i].score = half_score
    /\ \E i \in 1..4 : scoreOut.result.analysis_results[i].score = 0


====
